---- MODULE Spec2Model ----
(***************************************************************************)
(* Label / icon extraction pipeline of the launcher's main process         *)
(* (src/main.js): the two work queues, their workers, the label and icon   *)
(* caches and the temporary workspaces of an extraction.                   *)
(*                                                                         *)
(* The main process is single threaded.  One action of this module is the  *)
(* code that runs between two suspension points (an external process or a  *)
(* file-system promise): the callback of the finished operation and        *)
(* everything it calls synchronously, up to the next operation it starts.  *)
(***************************************************************************)
EXTENDS Integers, Sequences, FiniteSets, TLC

(* ---------------------------------------------------------------- bounds *)
NumPkgs == 2

PkgNames == <<"com.a", "com.b", "com.c", "com.d">>
Pkgs == {PkgNames[i] : i \in 1..NumPkgs}

\* labels a badging dump can carry; Null is JavaScript's null, "" the empty string
Labels == {"LabelA"}
Null == "<null>"
LabelResults == {Null, ""} \cup Labels
Falsy(x) == x \in {Null, ""}

\* the device ids `adb devices` can report; "" is "no current device"
Devices == {"dev1"}

\* extensions probed by getCachedIconPath, in probing order
IconExts == <<"svg", "png", "webp", "jpg", "jpeg">>
ExtSet == {IconExts[i] : i \in 1..Len(IconExts)}
NoIcon == ""

\* the formats the icons of the modelled device's packages resolve to: in the
\* raster-only pass, and in the full pass (adaptive composite, vector, raster)
RasterOutcomes == {"png", "webp"}
FullOutcomes == {"svg", "png", "webp"}

\* packageApkPathCache entry: no entry, [], [base.apk], [base.apk, split...]
PathStates == {"unset", "empty", "base", "split"}

\* what is installed on the modelled device: every other package is a split
\* APK, the rest consist of base.apk alone
ApkLayout(p) ==
  LET i == CHOOSE j \in 1..Len(PkgNames) : PkgNames[j] = p
  IN IF i % 2 = 1 THEN "split" ELSE "base"
\* what `pm path` can answer for p ("empty": nothing, or the command failed)
PathAnswers(p) == {"empty", ApkLayout(p)}

VARIABLES
  labelQueue, queuedLabelPackages, isProcessingLabelQueue,
  iconQueue, queuedIconPackages, isProcessingIconQueue,
  appLabelCache,        \* in-memory label map, loaded lazily from prefsLabels
  prefsLabels,          \* the map stored under LABEL_CACHE_KEY in preferences.json
  packageIconCache,     \* in-memory package -> cached icon (by extension)
  iconFiles,            \* files <pkg>.<ext> present in ICON_CACHE_DIR
  packageApkPathCache,
  currentDevice,
  aapt2Available,       \* getAapt2Command() # null
  labelWorkers,         \* the suspended processLabelQueue calls: where each one waits
  iconWorkers,          \* the suspended processIconQueue calls
  tempApk,              \* __tmp_app_label.apk exists
  tempDirs,             \* packages whose icono_<pkg> directory exists
  emitted,              \* events sent to the renderer by the last step, in order
  spawned,              \* external processes started by the last step
  listing,              \* value returned by listUserPackages in the last step
  dequeued,             \* queue items taken by the workers in the last step
  settled,              \* extraction attempts that ended in the last step
  cleared,              \* icon files removed by clearCachedIconFiles in the last step
  openStarted,          \* per kind: packages with a 'started' not yet followed by 'updated'
  reqHist,              \* per kind and package: how the pending request was accepted
  ran,                  \* the last turn of the event loop: its callback and its parity
  resolveCall,          \* the arguments of a call of resolveResourceReference
  resolverOutput,       \* what that call computed, once it has run
  fnCall,               \* a call of one of the pure functions: its name and arguments
  fnOutput,             \* what that call returned, once it has run
  matCall,              \* a call of materializeResolvedResource: the APKs and their XML files
  matFrame,             \* the activation of materializeResolvedResource that runs now
  matOutput,            \* what the outermost activation returned or threw, once it has
  matTurn,              \* parity of the activations run
  ongoingScrcpyDownload, \* the context of the scrcpy download in progress, or null
  installedScrcpyInfo,  \* version of the installed scrcpy as last read, 0 for null
  latestReleaseCache,   \* version of the release fetched from the API, 0 for null
  scrcpyCalls,          \* per caller: where its call of the lifecycle / the handler waits
  scrcpyDisk,           \* the application directory: adb.exe, the archive, the marker folders
  scrcpyRemote,         \* the version the release API answers with
  scrcpyOut,            \* the last step: its caller, file operations, events and result
  trackerPlatform,      \* process.platform of the window tracker
  listeners,            \* the tracker's map: id -> entry (title, visible, lastSeenAt)
  pollTimer,            \* the interval timer of the tracker is set
  polling,              \* the tracker's flag: a poll is in flight
  execsInFlight,        \* the number of powershell calls whose callback has not run
  trackerNow,           \* Date.now(), in ticks
  lastCallback,         \* per id: the value of the last visibility callback, "none" before
  registration,         \* per id: "never", "registered" or "unregistered"
  delivered             \* the visibility callbacks called by the last step

mainVars == <<labelQueue, queuedLabelPackages, isProcessingLabelQueue,
          iconQueue, queuedIconPackages, isProcessingIconQueue,
          appLabelCache, prefsLabels, packageIconCache, iconFiles,
          packageApkPathCache, currentDevice, aapt2Available,
          labelWorkers, iconWorkers, tempApk, tempDirs,
          emitted, spawned, listing, dequeued, settled, cleared,
          openStarted, reqHist, ran>>
resolverVars == <<resolveCall, resolverOutput>>
fnVars == <<fnCall, fnOutput>>
matVars == <<matCall, matFrame, matOutput, matTurn>>
scrcpyVars == <<ongoingScrcpyDownload, installedScrcpyInfo, latestReleaseCache,
                scrcpyCalls, scrcpyDisk, scrcpyRemote, scrcpyOut>>
trackerVars == <<trackerPlatform, listeners, pollTimer, polling, execsInFlight,
                 trackerNow, lastCallback, registration, delivered>>
sideVars == <<matVars, scrcpyVars, trackerVars>>
vars == <<mainVars, resolverVars, fnVars, sideVars>>

Kinds == {"label", "icon"}
\* one turn of the event loop, running callback `by`
Turn(by) == [by |-> by, turn |-> 1 - ran.turn]
Task(pc, p, res, paths) == [pc |-> pc, pkg |-> p, res |-> res, paths |-> paths]

\* The state as one record: the synchronous call chains below are functions
\* from state to state.  The outputs of a step start empty.
Cur ==
  [labelQueue |-> labelQueue, queuedLabelPackages |-> queuedLabelPackages,
   isProcessingLabelQueue |-> isProcessingLabelQueue,
   iconQueue |-> iconQueue, queuedIconPackages |-> queuedIconPackages,
   isProcessingIconQueue |-> isProcessingIconQueue,
   appLabelCache |-> appLabelCache, prefsLabels |-> prefsLabels,
   packageIconCache |-> packageIconCache, iconFiles |-> iconFiles,
   packageApkPathCache |-> packageApkPathCache, currentDevice |-> currentDevice,
   aapt2Available |-> aapt2Available,
   labelWorkers |-> labelWorkers, iconWorkers |-> iconWorkers,
   tempApk |-> tempApk, tempDirs |-> tempDirs,
   emitted |-> <<>>, spawned |-> {}, listing |-> <<>>, dequeued |-> {}, settled |-> {},
   cleared |-> {},
   openStarted |-> openStarted, reqHist |-> reqHist]

Commit(s) ==
  /\ labelQueue' = s.labelQueue
  /\ queuedLabelPackages' = s.queuedLabelPackages
  /\ isProcessingLabelQueue' = s.isProcessingLabelQueue
  /\ iconQueue' = s.iconQueue
  /\ queuedIconPackages' = s.queuedIconPackages
  /\ isProcessingIconQueue' = s.isProcessingIconQueue
  /\ appLabelCache' = s.appLabelCache
  /\ prefsLabels' = s.prefsLabels
  /\ packageIconCache' = s.packageIconCache
  /\ iconFiles' = s.iconFiles
  /\ packageApkPathCache' = s.packageApkPathCache
  /\ currentDevice' = s.currentDevice
  /\ aapt2Available' = s.aapt2Available
  /\ labelWorkers' = s.labelWorkers
  /\ iconWorkers' = s.iconWorkers
  /\ tempApk' = s.tempApk
  /\ tempDirs' = s.tempDirs
  /\ emitted' = s.emitted
  /\ spawned' = s.spawned
  /\ listing' = s.listing
  /\ dequeued' = s.dequeued
  /\ settled' = s.settled
  /\ cleared' = s.cleared
  /\ openStarted' = s.openStarted
  /\ reqHist' = s.reqHist
  /\ UNCHANGED <<resolverVars, fnVars, sideVars>>

(* ------------------------------------------------------- events, history *)
Event(ch, p, ref, ok) == [ch |-> ch, package |-> p, ref |-> ref, success |-> ok]

StartedCh(k) == IF k = "label" THEN "package-label-started" ELSE "package-icon-started"
UpdatedCh(k) == IF k = "label" THEN "package-label-updated" ELSE "package-icon-updated"

\* emitToRenderer: the send request is recorded; its delivery needs a live
\* main window, which belongs to the window management outside this model.
emitToRenderer(s, ev) == [s EXCEPT !.emitted = Append(@, ev)]

emitStarted(s, k, p) ==
  [emitToRenderer(s, Event(StartedCh(k), p, "", FALSE))
     EXCEPT !.openStarted[k] = @ \cup {p}]

emitUpdated(s, k, p, ref, ok) ==
  [emitToRenderer(s, Event(UpdatedCh(k), p, ref, ok))
     EXCEPT !.openStarted[k] = @ \ {p}]

\* run()/runBuffered(): an external process is started
spawn(s, k, p, cmd) == [s EXCEPT !.spawned = @ \cup {[kind |-> k, package |-> p, cmd |-> cmd]}]

\* an await: the worker coroutine is parked until its operation ends
suspendLabel(s, task) == [s EXCEPT !.labelWorkers = Append(@, task)]
suspendIcon(s, task) == [s EXCEPT !.iconWorkers = Append(@, task)]

RemoveAt(seq, i) == SubSeq(seq, 1, i - 1) \o SubSeq(seq, i + 1, Len(seq))

Running(s, k, p) ==
  LET ws == IF k = "label" THEN s.labelWorkers ELSE s.iconWorkers
  IN \E i \in 1..Len(ws) : ws[i].pkg = p

\* a request for a package that has a request pending
noteDuplicate(s, k, p) ==
  [s EXCEPT !.reqHist[k][p] = IF @ \in {"clean", "cleanDup"} THEN "cleanDup" ELSE "busyDup"]
\* a request that was pushed: "busy" when an extraction of p is running
noteAccepted(s, k, p) ==
  IF s.reqHist[k][p] # "none" THEN noteDuplicate(s, k, p)
  ELSE [s EXCEPT !.reqHist[k][p] = IF Running(s, k, p) THEN "busy" ELSE "clean"]
\* how: "cached" (answered from the cache), "fresh" (an extraction is started)
\* or "nolabel" (an icon item dropped because its label is missing); n: the
\* position of the shift among the shifts of this step
noteDequeued(s, k, p, how) ==
  [s EXCEPT !.reqHist[k][p] = "none",
            !.dequeued = @ \cup {[kind |-> k, package |-> p, how |-> how,
                                  hist |-> s.reqHist[k][p],
                                  n |-> Cardinality(s.dequeued) + 1]}]
\* res: what the extraction returned; Null when it threw or found nothing
noteSettled(s, k, p, res) ==
  [s EXCEPT !.settled = @ \cup {[kind |-> k, package |-> p, res |-> res]}]

(* ------------------------------------------------------------ the caches *)
\* getAppLabelCache: load the map from the preferences file on first use
getAppLabelCache(s) ==
  IF s.appLabelCache.loaded THEN s
  ELSE [s EXCEPT !.appLabelCache = [loaded |-> TRUE, map |-> s.prefsLabels]]

LabelOf(s, p) == getAppLabelCache(s).appLabelCache.map[p]

FirstExisting(files) ==
  LET idx == {i \in 1..Len(IconExts) : IconExts[i] \in files}
  IN IF idx = {} THEN NoIcon
     ELSE IconExts[CHOOSE i \in idx : \A j \in idx : i <= j]

\* getCachedIconPath: the value returned ...
CachedIcon(s, p) ==
  IF s.packageIconCache[p] # NoIcon THEN s.packageIconCache[p]
  ELSE FirstExisting(s.iconFiles[p])

\* ... and its side effect on packageIconCache
getCachedIconPath(s, p) == [s EXCEPT !.packageIconCache[p] = CachedIcon(s, p)]

(* -------------------------------------------------------- the icon queue *)
RECURSIVE drainIcon(_)

\* processIconQueue without the try/catch around extractIconForPackage: a
\* failed extraction leaves the loop through the finally block
settleIcon_NoCatch(s, p, res) ==
  IF res # Null
    THEN LET s1 == getCachedIconPath(noteSettled(s, "icon", p, res), p)
             finalPath == IF CachedIcon(s, p) # NoIcon THEN CachedIcon(s, p) ELSE res
         IN drainIcon(emitUpdated(s1, "icon", p, finalPath, TRUE))
    ELSE [noteSettled(s, "icon", p, res) EXCEPT !.isProcessingIconQueue = FALSE]

\* processIconQueue returning after the failure event instead of going on
\* with the loop
settleIcon_StopsOnFailure(s, p, res) ==
  IF res # Null
    THEN LET s1 == getCachedIconPath(noteSettled(s, "icon", p, res), p)
             finalPath == IF CachedIcon(s, p) # NoIcon THEN CachedIcon(s, p) ELSE res
         IN drainIcon(emitUpdated(s1, "icon", p, finalPath, TRUE))
    ELSE [emitUpdated(noteSettled(s, "icon", p, res), "icon", p, "", FALSE)
            EXCEPT !.isProcessingIconQueue = FALSE]

\* processIconQueue, lines 1244-1257: the item is settled and the loop goes on
settleIcon(s, p, res) ==
  IF res # Null
    THEN LET s1 == getCachedIconPath(noteSettled(s, "icon", p, res), p)
             finalPath == IF CachedIcon(s, p) # NoIcon THEN CachedIcon(s, p) ELSE res
         IN drainIcon(emitUpdated(s1, "icon", p, finalPath, TRUE))
    ELSE drainIcon(emitUpdated(noteSettled(s, "icon", p, res), "icon", p, "", FALSE))

\* extractIconForPackage from the path list on (lines 1428-1439): an empty list
\* throws, otherwise pullPackageApks recreates the temp directory and pulls base.apk
iconAfterPaths(s, p) ==
  IF s.packageApkPathCache[p] = "empty"
    THEN settleIcon(s, p, Null)
    ELSE spawn(suspendIcon([s EXCEPT !.tempDirs = @ \cup {p}],
                           Task("basePull", p, Null, s.packageApkPathCache[p])),
               "icon", p, "adb pull")

\* extractIconForPackage up to its first suspension (lines 1414-1427)
\* extractIconForPackage asking the device for the paths on every call
startIcon_NoPathCache(s, p) ==
  IF ~s.aapt2Available
    THEN settleIcon(s, p, Null)
    ELSE spawn(suspendIcon(s, Task("paths", p, Null, "unset")), "icon", p, "pm path")

startIcon(s, p) ==
  IF ~s.aapt2Available
    THEN settleIcon(s, p, Null)
    ELSE IF s.packageApkPathCache[p] = "unset"
      THEN spawn(suspendIcon(s, Task("paths", p, Null, "unset")), "icon", p, "pm path")
      ELSE iconAfterPaths(s, p)

\* processIconQueue without the look-up of the cached icon (lines 1225-1233)
drainIcon_NoCacheCheck(s) ==
  IF s.iconQueue = <<>>
    THEN [s EXCEPT !.isProcessingIconQueue = FALSE]
    ELSE LET p == Head(s.iconQueue)
             s1 == getAppLabelCache([s EXCEPT !.iconQueue = Tail(@),
                                              !.queuedIconPackages = @ \ {p}])
         IN IF Falsy(LabelOf(s1, p))
              THEN drainIcon(noteDequeued(s1, "icon", p, "nolabel"))
              ELSE startIcon(emitStarted(noteDequeued(s1, "icon", p, "fresh"), "icon", p), p)

\* the while loop of processIconQueue, run until the worker suspends or the
\* queue is empty (then the finally block clears the flag)
drainIcon(s) ==
  IF s.iconQueue = <<>>
    THEN [s EXCEPT !.isProcessingIconQueue = FALSE]
    ELSE LET p == Head(s.iconQueue)
             s1 == getAppLabelCache([s EXCEPT !.iconQueue = Tail(@),
                                              !.queuedIconPackages = @ \ {p}])
         IN IF Falsy(LabelOf(s1, p))
              THEN drainIcon(noteDequeued(s1, "icon", p, "nolabel"))
              ELSE IF CachedIcon(s1, p) # NoIcon
                THEN drainIcon(emitUpdated(getCachedIconPath(noteDequeued(s1, "icon", p, "cached"), p),
                                           "icon", p, CachedIcon(s1, p), TRUE))
                ELSE startIcon(emitStarted(noteDequeued(s1, "icon", p, "fresh"), "icon", p), p)

processIconQueue(s) ==
  IF s.isProcessingIconQueue THEN s
  ELSE drainIcon([s EXCEPT !.isProcessingIconQueue = TRUE])

RECURSIVE pushIcons_NoDedup(_, _)
\* queueAppIcons without the look-up in queuedIconPackages
pushIcons_NoDedup(s, pkgs) ==
  IF pkgs = <<>> THEN s
  ELSE LET p == Head(pkgs)
           s1 == IF Falsy(LabelOf(s, p)) THEN s
                 ELSE IF CachedIcon(s, p) # NoIcon THEN getCachedIconPath(s, p)
                 ELSE noteAccepted([s EXCEPT !.queuedIconPackages = @ \cup {p},
                                             !.iconQueue = Append(@, p)], "icon", p)
       IN pushIcons_NoDedup(s1, Tail(pkgs))

RECURSIVE pushIcons_NoLabelGate(_, _)
\* queueAppIcons without the look-up of the label (line 1200)
pushIcons_NoLabelGate(s, pkgs) ==
  IF pkgs = <<>> THEN s
  ELSE LET p == Head(pkgs)
           s1 == IF CachedIcon(s, p) # NoIcon THEN getCachedIconPath(s, p)
                 ELSE IF p \in s.queuedIconPackages THEN noteDuplicate(s, "icon", p)
                 ELSE noteAccepted([s EXCEPT !.queuedIconPackages = @ \cup {p},
                                             !.iconQueue = Append(@, p)], "icon", p)
       IN pushIcons_NoLabelGate(s1, Tail(pkgs))

RECURSIVE pushIcons(_, _)
\* the forEach of queueAppIcons
pushIcons(s, pkgs) ==
  IF pkgs = <<>> THEN s
  ELSE LET p == Head(pkgs)
           s1 == IF Falsy(LabelOf(s, p)) THEN s
                 ELSE IF CachedIcon(s, p) # NoIcon THEN getCachedIconPath(s, p)
                 ELSE IF p \in s.queuedIconPackages THEN noteDuplicate(s, "icon", p)
                 ELSE noteAccepted([s EXCEPT !.queuedIconPackages = @ \cup {p},
                                             !.iconQueue = Append(@, p)], "icon", p)
       IN pushIcons(s1, Tail(pkgs))

queueAppIcons(s, pkgs) == processIconQueue(pushIcons(getAppLabelCache(s), pkgs))

(* ------------------------------------------------------- the label queue *)
\* rememberAppLabel without its call of queueAppIcons: the icon waits for the
\* next listing
rememberAppLabel_NoIconRequest(s, p, label) ==
  IF Falsy(label) THEN s
  ELSE LET s0 == getAppLabelCache(s)
           cache == [s0.appLabelCache.map EXCEPT ![p] = label]
           s1 == [s0 EXCEPT !.appLabelCache = [loaded |-> TRUE, map |-> cache],
                            !.prefsLabels = cache]
       IN getCachedIconPath(s1, p)

\* rememberAppLabel writing the preferences file only: appLabelCache keeps
\* the map loaded earlier
rememberAppLabel_StaleMemory(s, p, label) ==
  IF Falsy(label) THEN s
  ELSE LET s0 == getAppLabelCache(s)
           cache == [s0.appLabelCache.map EXCEPT ![p] = label]
           s1 == [s0 EXCEPT !.prefsLabels = cache]
       IN IF CachedIcon(s1, p) = NoIcon
            THEN queueAppIcons(s1, <<p>>)
            ELSE getCachedIconPath(s1, p)

\* rememberAppLabel updating the in-memory map without writing the preferences
rememberAppLabel_NoPersist(s, p, label) ==
  IF Falsy(label) THEN s
  ELSE LET s0 == getAppLabelCache(s)
           cache == [s0.appLabelCache.map EXCEPT ![p] = label]
           s1 == [s0 EXCEPT !.appLabelCache = [loaded |-> TRUE, map |-> cache]]
       IN IF CachedIcon(s1, p) = NoIcon
            THEN queueAppIcons(s1, <<p>>)
            ELSE getCachedIconPath(s1, p)

\* rememberAppLabel: memory, preferences file, then the icon request
rememberAppLabel(s, p, label) ==
  IF Falsy(label) THEN s
  ELSE LET s0 == getAppLabelCache(s)
           cache == [s0.appLabelCache.map EXCEPT ![p] = label]
           s1 == [s0 EXCEPT !.appLabelCache = [loaded |-> TRUE, map |-> cache],
                            !.prefsLabels = cache]
       IN IF CachedIcon(s1, p) = NoIcon
            THEN queueAppIcons(s1, <<p>>)
            ELSE getCachedIconPath(s1, p)

\* extractLabelForPackage from the path list on (lines 1376-1385): without a
\* remote path it returns null through the finally block, otherwise the old
\* temp file is removed and base.apk is pulled
labelAfterPaths(s, p) ==
  IF s.packageApkPathCache[p] = "empty"
    THEN suspendLabel(s, Task("cleanup", p, Null, "unset"))
    ELSE spawn(suspendLabel([s EXCEPT !.tempApk = FALSE], Task("pull", p, Null, "unset")),
               "label", p, "adb pull")

\* extractLabelForPackage up to its first suspension (lines 1369-1375)
startLabel(s, p) ==
  IF s.packageApkPathCache[p] = "unset"
    THEN spawn(suspendLabel(s, Task("paths", p, Null, "unset")), "label", p, "pm path")
    ELSE labelAfterPaths(s, p)

RECURSIVE drainLabel(_)
\* processLabelQueue taking the newest request (pop) instead of the oldest (shift)
drainLabel_Pop(s) ==
  IF s.labelQueue = <<>>
    THEN [s EXCEPT !.isProcessingLabelQueue = FALSE]
    ELSE LET p == s.labelQueue[Len(s.labelQueue)]
             s1 == getAppLabelCache([s EXCEPT !.labelQueue = SubSeq(@, 1, Len(@) - 1),
                                              !.queuedLabelPackages = @ \ {p}])
         IN IF ~Falsy(LabelOf(s1, p))
              THEN drainLabel(emitUpdated(noteDequeued(s1, "label", p, "cached"),
                                          "label", p, LabelOf(s1, p), TRUE))
              ELSE startLabel(emitStarted(noteDequeued(s1, "label", p, "fresh"), "label", p), p)

\* the while loop of processLabelQueue, run until the worker suspends or the
\* queue is empty
drainLabel(s) ==
  IF s.labelQueue = <<>>
    THEN [s EXCEPT !.isProcessingLabelQueue = FALSE]
    ELSE LET p == Head(s.labelQueue)
             s1 == getAppLabelCache([s EXCEPT !.labelQueue = Tail(@),
                                              !.queuedLabelPackages = @ \ {p}])
         IN IF ~Falsy(LabelOf(s1, p))
              THEN drainLabel(emitUpdated(noteDequeued(s1, "label", p, "cached"),
                                          "label", p, LabelOf(s1, p), TRUE))
              ELSE startLabel(emitStarted(noteDequeued(s1, "label", p, "fresh"), "label", p), p)

\* processLabelQueue without its re-entrancy guard
processLabelQueue_NoGuard(s) == drainLabel([s EXCEPT !.isProcessingLabelQueue = TRUE])

processLabelQueue(s) ==
  IF s.isProcessingLabelQueue THEN s
  ELSE drainLabel([s EXCEPT !.isProcessingLabelQueue = TRUE])

RECURSIVE pushLabels_NoDedup(_, _)
\* queueAppLabels without the look-up in queuedLabelPackages
pushLabels_NoDedup(s, pkgs) ==
  IF pkgs = <<>> THEN s
  ELSE LET p == Head(pkgs)
           s1 == IF ~Falsy(LabelOf(s, p)) THEN s
                 ELSE noteAccepted([s EXCEPT !.queuedLabelPackages = @ \cup {p},
                                             !.labelQueue = Append(@, p)], "label", p)
       IN pushLabels_NoDedup(s1, Tail(pkgs))

RECURSIVE pushLabels(_, _)
\* the forEach of queueAppLabels
pushLabels(s, pkgs) ==
  IF pkgs = <<>> THEN s
  ELSE LET p == Head(pkgs)
           s1 == IF ~Falsy(LabelOf(s, p)) THEN s
                 ELSE IF p \in s.queuedLabelPackages THEN noteDuplicate(s, "label", p)
                 ELSE noteAccepted([s EXCEPT !.queuedLabelPackages = @ \cup {p},
                                             !.labelQueue = Append(@, p)], "label", p)
       IN pushLabels(s1, Tail(pkgs))

queueAppLabels(s, pkgs) == processLabelQueue(pushLabels(getAppLabelCache(s), pkgs))

\* processLabelQueue without the try/catch and the fallback event: an
\* extraction without a label leaves the loop through the finally block
settleLabel_NoCatch(s, p, label) ==
  IF Falsy(label)
    THEN [noteSettled(s, "label", p, label) EXCEPT !.isProcessingLabelQueue = FALSE]
    ELSE LET s1 == getAppLabelCache(rememberAppLabel(noteSettled(s, "label", p, label), p, label))
         IN drainLabel(emitUpdated(s1, "label", p, label, TRUE))

\* processLabelQueue sending the 'updated' event before the label is stored
settleLabel_UpdatedFirst(s, p, label) ==
  LET s0 == getAppLabelCache(noteSettled(s, "label", p, label))
      cached == s0.appLabelCache.map[p]
      finalLabel == IF ~Falsy(label) THEN label
                    ELSE IF ~Falsy(cached) THEN cached ELSE p
  IN drainLabel(rememberAppLabel(emitUpdated(s0, "label", p, finalLabel,
                                             ~Falsy(label) \/ ~Falsy(cached)),
                                 p, label))

\* processLabelQueue, lines 1175-1188: the item is settled and the loop goes on
settleLabel(s, p, label) ==
  LET s1 == getAppLabelCache(rememberAppLabel(noteSettled(s, "label", p, label), p, label))
      cached == s1.appLabelCache.map[p]
      finalLabel == IF ~Falsy(label) THEN label
                    ELSE IF ~Falsy(cached) THEN cached ELSE p
  IN drainLabel(emitUpdated(s1, "label", p, finalLabel,
                            ~Falsy(label) \/ ~Falsy(cached)))

(* --------------------------------------------------------------- actions *)
\* the package lists `pm list packages` can print: distinct packages in any order
RECURSIVE SeqsOver(_)
SeqsOver(S) ==
  {<<>>} \cup UNION {{<<p>> \o q : q \in SeqsOver(S \ {p})} : p \in S}

RECURSIVE SelectSeq2(_, _, _)
\* the packages of a list for which a listing row says "missing"
SelectSeq2(s, pkgs, kind) ==
  IF pkgs = <<>> THEN <<>>
  ELSE LET p == Head(pkgs)
           miss == IF kind = "label" THEN Falsy(LabelOf(s, p))
                   ELSE CachedIcon(s, p) = NoIcon
       IN (IF miss THEN <<p>> ELSE <<>>) \o SelectSeq2(s, Tail(pkgs), kind)

RECURSIVE probeAll(_, _)
probeAll(s, pkgs) ==
  IF pkgs = <<>> THEN s ELSE probeAll(getCachedIconPath(s, Head(pkgs)), Tail(pkgs))

\* one row of the listing (lines 1516-1534)
ListingRow(s, p) ==
  [package |-> p,
   name |-> IF Falsy(LabelOf(s, p)) THEN p ELSE LabelOf(s, p),
   hasLabel |-> ~Falsy(LabelOf(s, p)),
   iconResolved |-> CachedIcon(s, p) # NoIcon,
   iconPath |-> CachedIcon(s, p)]

\* listUserPackages that never asks for icons
listUserPackages_LabelsOnly(s, pkgs) ==
  LET s0 == getAppLabelCache(s)
      rows == [i \in 1..Len(pkgs) |-> ListingRow(s0, pkgs[i])]
      missing == SelectSeq2(s0, pkgs, "label")
      s1 == [probeAll(s0, pkgs) EXCEPT !.listing = <<rows>>]
  IN IF missing # <<>> THEN queueAppLabels(s1, missing) ELSE s1

\* listUserPackages after `pm list packages` printed the packages pkgs
listUserPackages(s, pkgs) ==
  LET s0 == getAppLabelCache(s)
      rows == [i \in 1..Len(pkgs) |-> ListingRow(s0, pkgs[i])]
      missing == SelectSeq2(s0, pkgs, "label")
      missingIcons == SelectSeq2(s0, pkgs, "icon")
      s1 == [probeAll(s0, pkgs) EXCEPT !.listing = <<rows>>]
      s2 == IF missing # <<>> THEN queueAppLabels(s1, missing) ELSE s1
  IN IF missingIcons # <<>> THEN queueAppIcons(s2, missingIcons) ELSE s2

\* ipcMain.handle('connect'): d = "" when no single authorized device is found
Connect(d) ==
  /\ d \in Devices \cup {""}
  /\ Commit([Cur EXCEPT !.currentDevice = d])
  /\ ran' = Turn("ipc")

\* ipcMain.handle('connect') when `adb devices` itself fails
ConnectError ==
  /\ Commit(Cur)
  /\ ran' = Turn("ipc")

\* ipcMain.handle('list-packages')
ListPackages(pkgs) ==
  /\ currentDevice # ""
  /\ Commit(listUserPackages(Cur, pkgs))
  /\ ran' = Turn("ipc")

\* ipcMain.handle('list-packages') when no device is connected or adb fails:
\* listUserPackages throws at line 1492 or 1496
ListPackagesError ==
  /\ Commit(Cur)
  /\ ran' = Turn("ipc")

\* the state in which worker i of the label queue resumes
ResumeLabel(i) == [Cur EXCEPT !.labelWorkers = RemoveAt(@, i)]
ResumeIcon(i) == [Cur EXCEPT !.iconWorkers = RemoveAt(@, i)]

\* the label worker: `pm path` returned (out = "empty" also when it failed)
LabelPathsDone(i, out) ==
  /\ labelWorkers[i].pc = "paths"
  /\ out \in PathAnswers(labelWorkers[i].pkg)
  /\ LET p == labelWorkers[i].pkg
     IN Commit(labelAfterPaths([ResumeLabel(i) EXCEPT !.packageApkPathCache[p] = out], p))

\* the label worker: `adb pull` ended; lines 1385-1396
LabelPullDone(i, outcome, partial) ==
  /\ labelWorkers[i].pc = "pull"
  /\ outcome \in {"ok", "nofile", "fail"}
  /\ partial \in BOOLEAN
  /\ LET w == labelWorkers[i]
         toCleanup(file) == suspendLabel([ResumeLabel(i) EXCEPT !.tempApk = file],
                                         [w EXCEPT !.pc = "cleanup"])
     IN CASE outcome = "fail" -> Commit(toCleanup(partial))
          [] outcome = "nofile" -> partial = FALSE /\ Commit(toCleanup(FALSE))
          [] outcome = "ok" ->
               /\ partial = FALSE
               /\ IF aapt2Available
                    THEN Commit(spawn(suspendLabel([ResumeLabel(i) EXCEPT !.tempApk = TRUE],
                                                   [w EXCEPT !.pc = "dump"]),
                                      "label", w.pkg, "aapt2 dump badging"))
                    ELSE Commit(toCleanup(TRUE))

\* the label worker: `aapt2 dump badging` ended (res = Null also when it failed)
LabelDumpDone(i, res) ==
  /\ labelWorkers[i].pc = "dump"
  /\ res \in LabelResults
  /\ Commit(suspendLabel(ResumeLabel(i),
                         [labelWorkers[i] EXCEPT !.pc = "cleanup", !.res = res]))

\* the label worker: the finally block removed the temp file; the item is settled
LabelCleanupDone(i) ==
  /\ labelWorkers[i].pc = "cleanup"
  /\ Commit(settleLabel([ResumeLabel(i) EXCEPT !.tempApk = FALSE],
                        labelWorkers[i].pkg, labelWorkers[i].res))

\* the icon worker: `pm path` returned
IconPathsDone(i, out) ==
  /\ iconWorkers[i].pc = "paths"
  /\ out \in PathAnswers(iconWorkers[i].pkg)
  /\ LET p == iconWorkers[i].pkg
     IN Commit(iconAfterPaths([ResumeIcon(i) EXCEPT !.packageApkPathCache[p] = out], p))

\* pullPackageApks without the removal of the directory in its catch block
IconBasePullDone_NoRemove(i, ok) ==
  /\ iconWorkers[i].pc = "basePull"
  /\ ok \in BOOLEAN
  /\ LET w == iconWorkers[i]
     IN IF ok
          THEN Commit(spawn(suspendIcon(ResumeIcon(i), [w EXCEPT !.pc = "raster"]),
                            "icon", w.pkg, "aapt2 dump badging"))
          ELSE Commit(settleIcon(ResumeIcon(i), w.pkg, Null))

\* the icon worker: the pull of base.apk ended; on failure pullPackageApks
\* removes the directory and the error reaches processIconQueue
IconBasePullDone(i, ok) ==
  /\ iconWorkers[i].pc = "basePull"
  /\ ok \in BOOLEAN
  /\ LET w == iconWorkers[i]
     IN IF ok
          THEN Commit(spawn(suspendIcon(ResumeIcon(i), [w EXCEPT !.pc = "raster"]),
                            "icon", w.pkg, "aapt2 dump badging"))
          ELSE Commit(settleIcon([ResumeIcon(i) EXCEPT !.tempDirs = @ \ {w.pkg}], w.pkg, Null))

\* clearCachedIconFiles: every file of the package except keepPath is removed
clearCachedIconFiles(s, p, keep) ==
  [s EXCEPT !.iconFiles[p] = @ \cap {keep},
            !.cleared = @ \cup {[package |-> p, ext |-> x] : x \in s.iconFiles[p] \ {keep}}]

\* a write path of resolveIconFromApks without its clearCachedIconFiles call
writeIcon_NoClear(s, p, ext) ==
  [s EXCEPT !.iconFiles[p] = @ \cup {ext}, !.packageIconCache[p] = ext]

\* an icon file is written by resolveIconFromApks: the other extensions are
\* cleared, the file is copied and packageIconCache is set
writeIcon(s, p, ext) ==
  [clearCachedIconFiles(s, p, ext)
     EXCEPT !.iconFiles[p] = @ \cup {ext}, !.packageIconCache[p] = ext]

\* the icon worker: resolveIconFromApks(rasterOnly) ended; lines 1464-1480
IconRasterDone(i, outcome) ==
  /\ iconWorkers[i].pc = "raster"
  /\ outcome \in RasterOutcomes \cup {"null", "throw"}
  /\ LET w == iconWorkers[i]
         p == w.pkg
     IN CASE outcome \in RasterOutcomes ->
               Commit(suspendIcon(writeIcon(ResumeIcon(i), p, outcome),
                                  [w EXCEPT !.pc = "cleanup", !.res = outcome]))
          [] outcome = "throw" ->
               Commit(suspendIcon(ResumeIcon(i), [w EXCEPT !.pc = "cleanup"]))
          [] outcome = "null" ->
               IF w.paths = "split"
                 THEN Commit(spawn(suspendIcon(ResumeIcon(i), [w EXCEPT !.pc = "splitPull"]),
                                   "icon", p, "adb pull"))
                 ELSE Commit(spawn(suspendIcon(ResumeIcon(i), [w EXCEPT !.pc = "full"]),
                                   "icon", p, "aapt2 dump badging"))

\* the icon worker: the pull of the split APKs ended; on failure pullPackageApks
\* removes the directory before the error reaches the finally block
IconSplitPullDone(i, ok) ==
  /\ iconWorkers[i].pc = "splitPull"
  /\ ok \in BOOLEAN
  /\ LET w == iconWorkers[i]
     IN IF ok
          THEN Commit(spawn(suspendIcon(ResumeIcon(i), [w EXCEPT !.pc = "full"]),
                            "icon", w.pkg, "aapt2 dump badging"))
          ELSE Commit(suspendIcon([ResumeIcon(i) EXCEPT !.tempDirs = @ \ {w.pkg}],
                                  [w EXCEPT !.pc = "cleanup"]))

\* the icon worker: the full resolveIconFromApks ended, or its call of
\* composeAdaptiveIcon failed.  "throwSvg": the vector converter wrote an empty
\* <pkg>.svg into the cache directory and the size check threw (lines 472-473,
\* 983-987).  "composeFails": composeAdaptiveIcon failed after sharp had
\* created <pkg>.png (lines 485-494, 976); the error is caught and the
\* foreground layer is tried next, the file staying on disk meanwhile
IconFullDone(i, outcome) ==
  /\ iconWorkers[i].pc = "full"
  /\ outcome \in FullOutcomes \cup {"null", "throw", "throwSvg", "composeFails"}
  /\ LET w == iconWorkers[i]
         p == w.pkg
     IN CASE outcome \in FullOutcomes ->
               Commit(suspendIcon(writeIcon(ResumeIcon(i), p, outcome),
                                  [w EXCEPT !.pc = "cleanup", !.res = outcome]))
          [] outcome = "throwSvg" ->
               Commit(suspendIcon([clearCachedIconFiles(ResumeIcon(i), p, "svg")
                                     EXCEPT !.iconFiles[p] = @ \cup {"svg"}],
                                  [w EXCEPT !.pc = "cleanup"]))
          [] outcome = "composeFails" ->
               Commit(suspendIcon([clearCachedIconFiles(ResumeIcon(i), p, "png")
                                     EXCEPT !.iconFiles[p] = @ \cup {"png"}],
                                  [w EXCEPT !.pc = "fallback"]))
          [] OTHER ->
               Commit(suspendIcon(ResumeIcon(i), [w EXCEPT !.pc = "cleanup"]))

\* the icon worker: after a failed composition the foreground layer was
\* copied, or drawn as a colour swatch, into the cache directory (lines
\* 497-529), or nothing could be made of it (line 531)
IconFallbackDone(i, outcome) ==
  /\ iconWorkers[i].pc = "fallback"
  /\ outcome \in FullOutcomes \cup {"throw"}
  /\ LET w == iconWorkers[i]
         p == w.pkg
     IN IF outcome \in FullOutcomes
          THEN Commit(suspendIcon(writeIcon(ResumeIcon(i), p, outcome),
                                  [w EXCEPT !.pc = "cleanup", !.res = outcome]))
          ELSE Commit(suspendIcon(ResumeIcon(i), [w EXCEPT !.pc = "cleanup"]))

\* the icon worker: the finally block removed the temp directory; the item is settled
IconCleanupDone(i) ==
  /\ iconWorkers[i].pc = "cleanup"
  /\ Commit(settleIcon([ResumeIcon(i) EXCEPT !.tempDirs = @ \ {iconWorkers[i].pkg}],
                       iconWorkers[i].pkg, iconWorkers[i].res))

\* the continuation of a suspended processLabelQueue call runs
LabelWorkerStep ==
  /\ ran' = Turn("label")
  /\ \E i \in 1..Len(labelWorkers) :
       \/ \E out \in PathStates : LabelPathsDone(i, out)
       \/ \E outcome \in {"ok", "nofile", "fail"}, partial \in BOOLEAN :
            LabelPullDone(i, outcome, partial)
       \/ \E res \in LabelResults : LabelDumpDone(i, res)
       \/ LabelCleanupDone(i)

\* the continuation of a suspended processIconQueue call runs
IconWorkerStep ==
  /\ ran' = Turn("icon")
  /\ \E i \in 1..Len(iconWorkers) :
       \/ \E out \in PathStates : IconPathsDone(i, out)
       \/ \E ok \in BOOLEAN : IconBasePullDone(i, ok)
       \/ \E outcome \in RasterOutcomes \cup {"null", "throw"} : IconRasterDone(i, outcome)
       \/ \E ok \in BOOLEAN : IconSplitPullDone(i, ok)
       \/ \E outcome \in FullOutcomes \cup {"null", "throw", "throwSvg", "composeFails"} :
            IconFullDone(i, outcome)
       \/ \E outcome \in FullOutcomes \cup {"throw"} : IconFallbackDone(i, outcome)
       \/ IconCleanupDone(i)

MainInit ==
  /\ labelQueue = <<>> /\ queuedLabelPackages = {} /\ isProcessingLabelQueue = FALSE
  /\ iconQueue = <<>> /\ queuedIconPackages = {} /\ isProcessingIconQueue = FALSE
  /\ appLabelCache = [loaded |-> FALSE, map |-> [p \in Pkgs |-> ""]]
  /\ prefsLabels \in [Pkgs -> {""} \cup Labels]
  /\ packageIconCache = [p \in Pkgs |-> NoIcon]
  /\ iconFiles = [p \in Pkgs |-> {}]
  /\ packageApkPathCache = [p \in Pkgs |-> "unset"]
  /\ currentDevice = ""
  /\ aapt2Available \in BOOLEAN
  /\ labelWorkers = <<>> /\ iconWorkers = <<>>
  /\ tempApk = FALSE /\ tempDirs = {}
  /\ emitted = <<>> /\ spawned = {} /\ listing = <<>>
  /\ dequeued = {} /\ settled = {} /\ cleared = {}
  /\ openStarted = [k \in Kinds |-> {}]
  /\ reqHist = [k \in Kinds |-> [p \in Pkgs |-> "none"]]
  /\ ran = [by |-> "none", turn |-> 0]

\* no call of the resolver is followed
NoCall == [resource |-> [resourceId |-> "", type |-> "", name |-> "", android |-> FALSE,
                         path |-> ""],
           apks |-> <<>>, preferredExtensions |-> <<>>]

NoFnCall == [fn |-> "", args |-> <<>>]

\* no call of materializeResolvedResource is followed
NoMatCall == [apks |-> <<>>, contents |-> <<>>]
NoFrame == [resolved |-> [apkPath |-> Null, entryPath |-> Null, format |-> ""],
            depth |-> 0, tag |-> "", ext |-> ""]
MatIdle == matCall = NoMatCall /\ matFrame = NoFrame /\ matOutput = <<>> /\ matTurn = 0

\* the callers of the scrcpy download: initializeScrcpyLifecycle, run once
\* when the window has loaded, and two invocations of 'scrcpy-start-update'
Callers == {"lifecycle", "ui1", "ui2"}
ScrcpyCall(pc) == [pc |-> pc, hasAdb |-> FALSE, installed |-> 0, release |-> 0, err |-> ""]
NoResult == [started |-> FALSE, reason |-> ""]
NoScrcpyOut == [by |-> "", ops |-> {}, events |-> <<>>, result |-> NoResult]
ScrcpyIdle ==
  /\ ongoingScrcpyDownload = Null /\ installedScrcpyInfo = 0 /\ latestReleaseCache = 0
  /\ scrcpyCalls = [c \in Callers |-> ScrcpyCall("off")]
  /\ scrcpyDisk = [adb |-> FALSE, archive |-> FALSE, markers |-> {}]
  /\ scrcpyRemote = 0
  /\ scrcpyOut = NoScrcpyOut

\* the ids of the tracked sessions: nextScrcpySessionId counts from 1
MaxIds == 2
Ids == 1..MaxIds
TrackerIdle ==
  /\ trackerPlatform = "" /\ listeners = <<>> /\ pollTimer = FALSE /\ polling = FALSE
  /\ execsInFlight = 0 /\ trackerNow = 1
  /\ lastCallback = [i \in Ids |-> "none"] /\ registration = [i \in Ids |-> "never"]
  /\ delivered = {}

SideIdle == MatIdle /\ ScrcpyIdle /\ TrackerIdle

Init ==
  /\ MainInit
  /\ resolveCall = NoCall /\ resolverOutput = <<>>
  /\ fnCall = NoFnCall /\ fnOutput = <<>>
  /\ SideIdle

Next ==
  \/ \E d \in Devices \cup {""} : Connect(d)
  \/ ConnectError
  \/ \E pkgs \in SeqsOver(Pkgs) : ListPackages(pkgs)
  \/ ListPackagesError
  \/ LabelWorkerStep
  \/ IconWorkerStep

Spec == Init /\ [][Next]_vars

\* Every external call a worker waits for (adb, aapt2, the file system) ends,
\* in success or in failure, and the event loop then runs the continuation.
\* A continuation is a turn of its worker, and a worker's continuation can
\* run exactly when a call of that worker is suspended: each position a call
\* suspends at has a step whose only guard is that position.
LabelWorkerRuns == labelWorkers # <<>> /\ ran' = Turn("label")
IconWorkerRuns == iconWorkers # <<>> /\ ran' = Turn("icon")

FairSpec == Spec /\ WF_ran(LabelWorkerRuns) /\ WF_ran(IconWorkerRuns)

(* ------------------------------------------------ strings, as JavaScript *)
StartsWith(s, pre) == Len(s) >= Len(pre) /\ SubSeq(s, 1, Len(pre)) = pre
EndsWith(s, suf) == Len(s) >= Len(suf) /\ SubSeq(s, Len(s) - Len(suf) + 1, Len(s)) = suf
CharAt(s, i) == SubSeq(s, i, i)
\* the positions of character c in s
Positions(s, c) == {i \in 1..Len(s) : CharAt(s, i) = c}
Max(S) == CHOOSE x \in S : \A y \in S : y <= x
Min(S) == CHOOSE x \in S : \A y \in S : x <= y
LowerOf ==
  [A |-> "a", B |-> "b", C |-> "c", D |-> "d", E |-> "e", F |-> "f", G |-> "g", H |-> "h",
   I |-> "i", J |-> "j", K |-> "k", L |-> "l", M |-> "m", N |-> "n", O |-> "o", P |-> "p",
   Q |-> "q", R |-> "r", S |-> "s", T |-> "t", U |-> "u", V |-> "v", W |-> "w", X |-> "x",
   Y |-> "y", Z |-> "z"]
Digits == "0123456789"
RECURSIVE toLowerCase(_)
toLowerCase(s) ==
  IF s = "" THEN ""
  ELSE LET c == CharAt(s, 1)
       IN (IF c \in DOMAIN LowerOf THEN LowerOf[c] ELSE c) \o toLowerCase(SubSeq(s, 2, Len(s)))
\* path.basename for paths without a trailing slash
basename(s) ==
  LET sl == Positions(s, "/")
  IN IF sl = {} THEN s ELSE SubSeq(s, Max(sl) + 1, Len(s))
\* s.replace(/^@/, '')
stripAt(s) == IF StartsWith(s, "@") THEN SubSeq(s, 2, Len(s)) ELSE s
\* s.replace(/^\/+/, '')
RECURSIVE stripSlashes(_)
stripSlashes(s) == IF StartsWith(s, "/") THEN stripSlashes(SubSeq(s, 2, Len(s))) ELSE s
\* s.split(sep) for a separator of one character
RECURSIVE split(_, _)
split(s, sep) ==
  LET d == Positions(s, sep)
  IN IF d = {} THEN <<s>>
     ELSE <<SubSeq(s, 1, Min(d) - 1)>> \o split(SubSeq(s, Min(d) + 1, Len(s)), sep)
IsDigits(s) == s # "" /\ \A i \in 1..Len(s) : Positions(Digits, CharAt(s, i)) # {}
\* Number.parseInt(s, 10) of a string of digits
RECURSIVE parseInt(_)
parseInt(s) ==
  IF s = "" THEN 0
  ELSE 10 * parseInt(SubSeq(s, 1, Len(s) - 1)) + (Min(Positions(Digits, CharAt(s, Len(s)))) - 1)
\* the order of String.prototype.localeCompare on the characters that occur in
\* entry paths (root collation: punctuation, then digits, then letters)
Collation == "_-./0123456789abcdefghijklmnopqrstuvwxyz"
Rank == [c \in {CharAt(Collation, i) : i \in 1..Len(Collation)} |->
           CHOOSE i \in 1..Len(Collation) : CharAt(Collation, i) = c]
RECURSIVE localeCompare(_, _)
localeCompare(a, b) ==
  IF a = "" THEN (IF b = "" THEN 0 ELSE 0 - 1)
  ELSE IF b = "" THEN 1
  ELSE IF Rank[CharAt(a, 1)] < Rank[CharAt(b, 1)] THEN 0 - 1
  ELSE IF Rank[CharAt(a, 1)] > Rank[CharAt(b, 1)] THEN 1
  ELSE localeCompare(SubSeq(a, 2, Len(a)), SubSeq(b, 2, Len(b)))

(* ------------------------------------------------- the resource resolver *)
getFormatFromEntry(entryPath) ==
  LET lower == toLowerCase(entryPath)
  IN IF EndsWith(lower, ".png") THEN "png"
     ELSE IF EndsWith(lower, ".webp") THEN "webp"
     ELSE IF EndsWith(lower, ".jpg") THEN "jpg"
     ELSE IF EndsWith(lower, ".jpeg") THEN "jpeg"
     ELSE IF EndsWith(lower, ".xml.flat") THEN "xml.flat"
     ELSE IF EndsWith(lower, ".xml") THEN "xml"
     ELSE IF EndsWith(lower, ".svg") THEN "svg"
     ELSE ""

DENSITY_QUALIFIER_SCORES ==
  [xxxhdpi |-> 800, xxhdpi |-> 700, xhdpi |-> 600, tvdpi |-> 550, hdpi |-> 500,
   nodpi |-> 480, anydpi |-> 300, mdpi |-> 250, ldpi |-> 200, sdpi |-> 180]

DefaultExtensions == <<".png", ".webp", ".xml", ".xml.flat", ".jpg", ".jpeg">>

normalizeExtension(ext) ==
  IF ext = "" THEN ""
  ELSE LET lower == toLowerCase(ext)
           normalized == IF StartsWith(lower, ".") THEN lower ELSE "." \o lower
       IN IF normalized = ".xmlflat" THEN ".xml.flat" ELSE normalized

normalizePreferredExtensions(preferredExtensions) ==
  LET provided == IF preferredExtensions # <<>> THEN preferredExtensions ELSE DefaultExtensions
  IN SelectSeq([i \in 1..Len(provided) |-> normalizeExtension(provided[i])],
               LAMBDA e : e # "")

\* the text captured by /^res\/[^/]+-([^/]+)\//i, or "" when the path does not
\* match: the first [^/]+ is greedy, so the group starts after the last hyphen
\* of the directory name that still leaves it a character
qualifierGroup(entryPath) ==
  IF ~StartsWith(toLowerCase(entryPath), "res/") THEN ""
  ELSE LET rest == SubSeq(entryPath, 5, Len(entryPath))
           sl == Positions(rest, "/")
       IN IF sl = {} THEN ""
          ELSE LET dir == SubSeq(rest, 1, Min(sl) - 1)
                   cut == {d \in Positions(dir, "-") : 1 < d /\ d < Len(dir)}
               IN IF cut = {} THEN "" ELSE SubSeq(dir, Max(cut) + 1, Len(dir))

qualifierScore(rawQualifier) ==
  LET qualifier == toLowerCase(rawQualifier)
  IN IF qualifier \in DOMAIN DENSITY_QUALIFIER_SCORES THEN DENSITY_QUALIFIER_SCORES[qualifier]
     ELSE IF EndsWith(qualifier, "dpi") /\ IsDigits(SubSeq(qualifier, 1, Len(qualifier) - 3))
       THEN parseInt(SubSeq(qualifier, 1, Len(qualifier) - 3))
     ELSE 0

getDensityScore(entryPath) ==
  LET group == qualifierGroup(entryPath)
  IN IF group = "" THEN 0
     ELSE LET qualifiers == split(group, "-")
          IN Max({0} \cup {qualifierScore(qualifiers[i]) : i \in 1..Len(qualifiers)})

formatToExtension(format) ==
  IF format = "" THEN ""
  ELSE IF format = "xml.flat" THEN ".xml.flat"
  ELSE "." \o toLowerCase(format)

\* extensionPriority: a later occurrence of an extension overwrites an earlier one
extensionPriority(extensions, ext) ==
  LET at == {i \in 1..Len(extensions) : extensions[i] = ext}
  IN IF at = {} THEN 0 ELSE Len(extensions) - (Max(at) - 1)

\* the comparator looking at the density before the extension
compareMatches_DensityFirst(a, b) ==
  IF a.densityScore # b.densityScore THEN b.densityScore - a.densityScore
  ELSE IF a.priority # b.priority THEN b.priority - a.priority
  ELSE localeCompare(a.entry, b.entry)

\* the comparator with the tie-break on the path reversed
compareMatches_PathDescending(a, b) ==
  IF a.priority # b.priority THEN b.priority - a.priority
  ELSE IF a.densityScore # b.densityScore THEN b.densityScore - a.densityScore
  ELSE localeCompare(b.entry, a.entry)

\* the comparator of matches.sort
compareMatches(a, b) ==
  IF a.priority # b.priority THEN b.priority - a.priority
  ELSE IF a.densityScore # b.densityScore THEN b.densityScore - a.densityScore
  ELSE localeCompare(a.entry, b.entry)

RECURSIVE insertSorted(_, _)
insertSorted(sorted, m) ==
  IF sorted = <<>> THEN <<m>>
  ELSE IF compareMatches(m, Head(sorted)) < 0 THEN <<m>> \o sorted
  ELSE <<Head(sorted)>> \o insertSorted(Tail(sorted), m)

\* Array.prototype.sort with compareMatches (a stable sort)
RECURSIVE sort(_)
sort(matches) ==
  IF matches = <<>> THEN <<>>
  ELSE insertSorted(sort(SubSeq(matches, 1, Len(matches) - 1)), matches[Len(matches)])

\* findResourceEntry, lines 667-691: the entries that match type and name
matchOf(entry, resource, extensions) ==
  LET extension == formatToExtension(getFormatFromEntry(entry))
  IN [entry |-> entry, extension |-> extension, densityScore |-> getDensityScore(entry),
      priority |-> extensionPriority(extensions, extension)]

isMatch(entry, resource, extensions) ==
  LET extension == formatToExtension(getFormatFromEntry(entry))
  IN /\ \/ StartsWith(entry, "res/" \o resource.type \o "-")
        \/ StartsWith(entry, "res/" \o resource.type \o "/")
     /\ extensionPriority(extensions, extension) # 0
     /\ basename(entry) = stripAt(resource.name) \o extension

\* findResourceEntry, lines 667-707: the matches array after the sort
rankedMatches(entries, resource, preferredExtensions) ==
  LET extensions == normalizePreferredExtensions(preferredExtensions)
      hits == SelectSeq(entries, LAMBDA entry : isMatch(entry, resource, extensions))
  IN sort([i \in 1..Len(hits) |-> matchOf(hits[i], resource, extensions)])

\* findByPath without the fallback to the file name
findByPath_ExactOnly(entries, resource) ==
  LET normalized == stripSlashes(resource.path)
  IN IF \E i \in 1..Len(entries) : entries[i] = normalized THEN normalized ELSE Null

\* findResourceEntry, lines 651-661: a reference by path
findByPath(entries, resource) ==
  LET normalized == stripSlashes(resource.path)
      ends == {i \in 1..Len(entries) : EndsWith(entries[i], "/" \o basename(normalized))}
  IN IF \E i \in 1..Len(entries) : entries[i] = normalized THEN normalized
     ELSE IF ends # {} THEN entries[Min(ends)]
     ELSE Null

findResourceEntry(entries, resource, preferredExtensions) ==
  IF entries = <<>> THEN Null
  ELSE IF resource.path # "" /\ findByPath(entries, resource) # Null
    THEN findByPath(entries, resource)
  ELSE IF resource.type = "" \/ resource.name = "" THEN Null
  ELSE LET matches == rankedMatches(entries, resource, preferredExtensions)
       IN IF matches = <<>> THEN Null ELSE matches[1].entry

\* getResourceTable: the table parsed from the lines of `aapt2 dump resources`;
\* the key is the hexadecimal number without its 0x prefix, in lower case, and
\* a later line for the same number replaces an earlier one
tableHas(dump, id) == \E i \in 1..Len(dump) : toLowerCase(dump[i].hex) = id
tableGet(dump, id) ==
  LET i == Max({j \in 1..Len(dump) : toLowerCase(dump[j].hex) = id})
  IN [type |-> dump[i].type, name |-> dump[i].name]

NoEntry == [type |-> "", name |-> ""]

\* what running an external tool on an APK can do: print its output and exit
\* with 0, exit with an error, or not start because the tool is not installed
ToolOutcomes == {"ok", "fails", "missing"}
\* the settlement of an awaited call: a value, or an exception
Returned(v) == [threw |-> FALSE, value |-> v]
Thrown == [threw |-> TRUE, value |-> <<>>]
\* await runBuffered(`tar -tf apk`), split into lines
runTarList(apk) == IF apk.tar = "ok" THEN Returned(apk.entries) ELSE Thrown
\* await run(`aapt2 dump resources apk`), the lines that match
runDumpResources(apk) == IF apk.aapt2 = "ok" THEN Returned(apk.dump) ELSE Thrown

\* getApkEntries without its try/catch
getApkEntries_NoCatch(apk) == runTarList(apk)

\* getApkEntries for an APK listed for the first time
getApkEntries(apk) ==
  LET listed == runTarList(apk)
  IN IF listed.threw THEN Returned(<<>>) ELSE listed

\* getResourceTable for an APK dumped for the first time
getResourceTable(apk) ==
  LET dumped == runDumpResources(apk)
  IN IF dumped.threw THEN Returned(<<>>) ELSE dumped

\* an exception leaving resolveResourceId
EntryRaised == [type |-> "", name |-> "", threw |-> TRUE]

RECURSIVE resolveResourceId(_, _)
resolveResourceId(resourceId, apks) ==
  LET normalized == toLowerCase(stripAt(resourceId))
  IN IF resourceId = "" \/ normalized = "" \/ apks = <<>> THEN NoEntry
     ELSE LET table == getResourceTable(Head(apks))
          IN IF table.threw THEN EntryRaised
             ELSE IF tableHas(table.value, normalized) THEN tableGet(table.value, normalized)
             ELSE resolveResourceId(resourceId, Tail(apks))

\* resolveResourceReference, lines 715-721: the reference used for the search
workingResource(resource, apks) ==
  IF resource.resourceId # "" /\ resource.type = "" /\ resource.name = ""
    THEN LET resolved == resolveResourceId(resource.resourceId, apks)
         IN IF resolved # NoEntry /\ resolved # EntryRaised
              THEN [resource EXCEPT !.type = resolved.type, !.name = resolved.name]
              ELSE resource
    ELSE resource

NoMatch == [apkPath |-> Null, entryPath |-> Null, format |-> ""]
\* an exception leaving resolveResourceReference
Raised == [apkPath |-> Null, entryPath |-> Null, format |-> "", threw |-> TRUE]

\* the loop of resolveResourceReference letting a later APK override an
\* earlier one
RECURSIVE firstMatch_LaterApkWins(_, _, _)
firstMatch_LaterApkWins(working, apks, preferredExtensions) ==
  IF apks = <<>> THEN NoMatch
  ELSE LET match == findResourceEntry(getApkEntries(Head(apks)).value, working,
                                      preferredExtensions)
           later == firstMatch_LaterApkWins(working, Tail(apks), preferredExtensions)
       IN IF later # NoMatch THEN later
          ELSE IF match # Null
            THEN [apkPath |-> Head(apks).localPath, entryPath |-> match,
                  format |-> getFormatFromEntry(match)]
            ELSE NoMatch

RECURSIVE firstMatch(_, _, _)
firstMatch(working, apks, preferredExtensions) ==
  IF apks = <<>> THEN NoMatch
  ELSE LET entries == getApkEntries(Head(apks))
           match == findResourceEntry(entries.value, working, preferredExtensions)
       IN IF entries.threw THEN Raised
          ELSE IF match # Null
            THEN [apkPath |-> Head(apks).localPath, entryPath |-> match,
                  format |-> getFormatFromEntry(match)]
            ELSE firstMatch(working, Tail(apks), preferredExtensions)

\* resolveResourceReference without the test of working.android
resolveResourceReference_NoAndroidStop(resource, apks, preferredExtensions) ==
  firstMatch(workingResource(resource, apks), apks, preferredExtensions)

resolveResourceReference(resource, apks, preferredExtensions) ==
  LET working == workingResource(resource, apks)
  IN IF /\ resource.resourceId # "" /\ resource.type = "" /\ resource.name = ""
        /\ resolveResourceId(resource.resourceId, apks) = EntryRaised
       THEN Raised
     ELSE IF working.android THEN NoMatch
     ELSE firstMatch(working, apks, preferredExtensions)

(* ------------------------------------- the resolver applied to its inputs *)
MaxEntries == 3
\* entry paths as `tar -tf` prints them
EntryUniverse ==
  <<"res/mipmap-mdpi/ic.png", "res/mipmap-xxxhdpi/ic.xml", "res/mipmap-xxhdpi/ic.png",
    "res/mipmap-hdpi/ic.png", "res/mipmap/ic.png", "res/mipmap-xxhdpi-v4/ic.png",
    "res/mipmap-en-hdpi/ic.png", "res/mipmap-640dpi/ic.png", "res/mipmap-ldpi/ic.webp",
    "res/mipmap-sdpi/ic.webp", "res/mipmap-nodpi/ic.png", "res/mipmap-anydpi/ic.xml",
    "res/mipmap-anydpi-v26/ic.xml", "res/mipmap-xhdpi/ic.xml.flat",
    "res/drawable-xxxhdpi/ic.png", "res/mipmap-xxxhdpi/ic_round.png">>
SplitUniverse ==
  <<"res/mipmap-xxxhdpi/ic.png", "res/mipmap-xxxhdpi/ic.xml", "res/mipmap-ldpi/ic.webp">>
\* the entries of U at the positions S, in the order of U or in the reverse order
Listed(U, S, reversed) ==
  LET n == Cardinality(S)
      up == [i \in 1..n |-> U[CHOOSE x \in S : Cardinality({y \in S : y < x}) = i - 1]]
  IN IF reversed THEN [i \in 1..n |-> up[n + 1 - i]] ELSE up
EntryLists(U, max) ==
  {Listed(U, S, r) : S \in {T \in SUBSET (1..Len(U)) : Cardinality(T) <= max},
                     r \in BOOLEAN}
\* the lines of `aapt2 dump resources` that getResourceTable accepts
Dumps ==
  {<<>>, <<[hex |-> "7f0d0000", type |-> "mipmap", name |-> "ic"]>>,
   <<[hex |-> "7F0D0000", type |-> "drawable", name |-> "ic"]>>,
   <<[hex |-> "7f0d0001", type |-> "mipmap", name |-> "ic"]>>}
\* the comparator of pulled.sort in pullPackageApks: base.apk first, then by
\* file name
comparePulled(a, b) ==
  LET aBase == IF a.localPath = "base.apk" THEN 0 ELSE 1
      bBase == IF b.localPath = "base.apk" THEN 0 ELSE 1
  IN IF aBase # bBase THEN aBase - bBase ELSE localeCompare(a.localPath, b.localPath)
\* pulled.sort for the one or two APKs of a call
sortPulled(pulled) ==
  IF Len(pulled) = 2 /\ comparePulled(pulled[2], pulled[1]) < 0
    THEN <<pulled[2], pulled[1]>>
    ELSE pulled
\* the APKs as pullPackageApks returns them, whatever order they were pulled in
ApkLists(baseEntries, splitEntries, dumps) ==
  LET baseApk(e, d) ==
        [localPath |-> "base.apk", entries |-> e, dump |-> d, tar |-> "ok", aapt2 |-> "ok"]
      splitApk(e, d) ==
        [localPath |-> "split_config.apk", entries |-> e, dump |-> d, tar |-> "ok",
         aapt2 |-> "ok"]
  IN {<<baseApk(e, d)>> : e \in baseEntries, d \in dumps}
     \cup {sortPulled(pulled) :
             pulled \in UNION {{<<baseApk(e, d), splitApk(f, g)>>, <<splitApk(f, g), baseApk(e, d)>>} :
                                e \in baseEntries, d \in dumps, f \in splitEntries, g \in dumps}}
\* the same APKs with every outcome of listing and dumping each of them
WithTools(apks) ==
  {[i \in 1..Len(apks) |-> [apks[i] EXCEPT !.tar = t[i], !.aapt2 = a[i]]] :
     t \in [1..Len(apks) -> ToolOutcomes], a \in [1..Len(apks) -> ToolOutcomes]}
ByTypeName(type, name) ==
  [resourceId |-> "", type |-> type, name |-> name, android |-> FALSE, path |-> ""]
ById(id) == [resourceId |-> id, type |-> "", name |-> "", android |-> FALSE, path |-> ""]
ByPath(path) == [resourceId |-> "", type |-> "", name |-> "", android |-> FALSE, path |-> path]
Android(type, name) ==
  [resourceId |-> "", type |-> type, name |-> name, android |-> TRUE, path |-> ""]
\* the two lists that resolveIconFromApks passes first (lines 417-422), and
\* one that prefers XML and needs normalizing
PreferredLists ==
  {<<".png", ".webp", ".xml", ".xml.flat">>, <<".png", ".webp", ".jpg", ".jpeg">>,
   <<"XML", "png">>}
Call(resource, apks, preferred) ==
  [resource |-> resource, apks |-> apks, preferredExtensions |-> preferred]
\* the calls followed, with at most maxEntries entries in the base APK
Calls(maxEntries) ==
  {Call(ByTypeName("mipmap", "ic"), a, x) :
     a \in ApkLists(EntryLists(EntryUniverse, maxEntries), EntryLists(SplitUniverse, 1), {<<>>}),
     x \in PreferredLists}
  \cup {Call(r, a, <<>>) :
          r \in {ByPath("res/mipmap-hdpi/ic.png"), ByPath("/res/mipmap-xxxhdpi/ic.png")},
          a \in ApkLists(EntryLists(EntryUniverse, maxEntries - 1),
                         EntryLists(SplitUniverse, 1), {<<>>})}
  \cup {Call(r, a, <<>>) :
          r \in {ById("0x7f0d0000"), ById("7f0d0000"), ById("@7F0D0000"),
                 Android("mipmap", "ic")},
          a \in ApkLists(EntryLists(SubSeq(EntryUniverse, 4, 4), 1),
                         EntryLists(SubSeq(SplitUniverse, 1, 1), 1), Dumps)}
  \cup {Call(r, a, <<>>) :
          r \in {ByTypeName("mipmap", "ic"), ById("7f0d0000"),
                 ByPath("res/mipmap-hdpi/ic.png")},
          a \in UNION {WithTools(b) :
                         b \in ApkLists({<<"res/mipmap-hdpi/ic.png">>},
                                        {<<"res/mipmap-xxxhdpi/ic.png">>},
                                        {<<[hex |-> "7f0d0000", type |-> "mipmap",
                                            name |-> "ic"]>>})}}
  \cup {Call(Android("mipmap", "ic"), a, x) :
          a \in ApkLists(EntryLists(EntryUniverse, 1), EntryLists(SplitUniverse, 1), {<<>>}),
          x \in PreferredLists \cup {<<>>}}

ResolverInit ==
  /\ MainInit
  /\ prefsLabels = [p \in Pkgs |-> ""] /\ aapt2Available
  /\ resolveCall \in Calls(MaxEntries)
  /\ resolverOutput = <<>>
  /\ fnCall = NoFnCall /\ fnOutput = <<>>
  /\ SideIdle

\* resolveResourceReference runs on the arguments; next to its result the
\* step records the reference it searched for and, per APK, the matches array
\* of findResourceEntry after the sort
Resolve ==
  /\ resolverOutput = <<>>
  /\ LET c == resolveCall
         working == workingResource(c.resource, c.apks)
     IN resolverOutput' =
          <<[result |-> resolveResourceReference(c.resource, c.apks, c.preferredExtensions),
             working |-> working,
             matches |-> [i \in 1..Len(c.apks) |->
                            rankedMatches(getApkEntries(c.apks[i]).value, working,
                                          c.preferredExtensions)],
             found |-> [i \in 1..Len(c.apks) |->
                          findResourceEntry(getApkEntries(c.apks[i]).value, working,
                                            c.preferredExtensions)]]>>
  /\ UNCHANGED <<mainVars, resolveCall, fnVars, sideVars>>

ResolverNext == Resolve
ResolverSpec == ResolverInit /\ [][ResolverNext]_vars

(* ------------------------------------------------------------ properties *)
Range(seq) == {seq[i] : i \in 1..Len(seq)}
StartedCount(k, p, evs) ==
  Cardinality({i \in 1..Len(evs) : evs[i].ch = StartedCh(k) /\ evs[i].package = p})
UpdatedIdx(k, p, evs) ==
  {i \in 1..Len(evs) : evs[i].ch = UpdatedCh(k) /\ evs[i].package = p}
StartedIdx(k, p, evs) ==
  {i \in 1..Len(evs) : evs[i].ch = StartedCh(k) /\ evs[i].package = p}
WorkersOf(k) == IF k = "label" THEN labelWorkers ELSE iconWorkers
QueueOf(k) == IF k = "label" THEN labelQueue ELSE iconQueue
RunningPkgs(k) == {WorkersOf(k)[i].pkg : i \in 1..Len(WorkersOf(k))}
CurLabel(p) == IF appLabelCache.loaded THEN appLabelCache.map[p] ELSE prefsLabels[p]
CurIcon(p) ==
  IF packageIconCache[p] # NoIcon THEN packageIconCache[p] ELSE FirstExisting(iconFiles[p])

\* C1: for each queue kind at most one worker, hence at most one extraction
\* task, exists at any time, whatever enqueue requests arrive while it drains.
C1_SingleWorker ==
  \A k \in Kinds : Len(WorkersOf(k)) <= 1

\* C1 witness: both kinds have a worker in flight and each got a request for
\* the very package it is extracting, accepted while it was draining.
C1_Witness ==
  /\ Len(labelWorkers) = 1 /\ Len(iconWorkers) = 1
  /\ \E p \in Pkgs : reqHist["label"][p] = "busy"
  /\ \E p \in Pkgs : reqHist["icon"][p] = "busy"

FailureEvent(x) ==
  Event(UpdatedCh(x.kind), x.package, IF x.kind = "label" THEN x.package ELSE "", FALSE)
SpawnedFor(k, p) == \E c \in spawned : c.kind = k /\ c.package = p

C6_IconNeedsLabel ==
  \A p \in Range(iconQueue) \cup queuedIconPackages \cup RunningPkgs("icon") :
    ~Falsy(CurLabel(p))

\* C6 witness: a listing has just asked for the icon of a package that has
\* neither label nor icon, while the icon worker is busy; it was not enqueued.
C6_Witness ==
  /\ listing # <<>>
  /\ Len(iconWorkers) = 1
  /\ \E i \in 1..Len(listing[1]) :
       /\ ~listing[1][i].hasLabel /\ ~listing[1][i].iconResolved
       /\ listing[1][i].package \notin queuedIconPackages

\* an extraction of p is between a failed composition and its foreground
\* fallback: the first call for p has not returned yet
Composing(p) ==
  \E i \in 1..Len(iconWorkers) : iconWorkers[i].pkg = p /\ iconWorkers[i].pc = "fallback"

C8_NoWorkspaceLeft ==
  /\ tempDirs \subseteq RunningPkgs("icon")
  /\ tempApk => Len(labelWorkers) >= 1
  /\ \A x \in settled : x.kind = "label" => ~tempApk

\* C8 witness: an icon extraction that had pulled its APK has just failed, and
\* no temp directory is left.
C8_Witness ==
  \E x \in settled :
    /\ x.kind = "icon" /\ x.res = Null
    /\ packageApkPathCache[x.package] = "split"
    /\ tempDirs = {} /\ iconWorkers = <<>>

\* C9: in every listing hasLabel is true exactly for the packages whose cached
\* label is a non-empty string, the display name is that label, or the package
\* id without one; a successful label event leaves its label in the cache and
\* a cached label never changes, so later listings report it.
C9_ListingMatchesCache ==
  /\ [](listing # <<>> =>
          \A i \in 1..Len(listing[1]) :
            LET row == listing[1][i] IN
              /\ row.hasLabel <=> CurLabel(row.package) \in Labels
              /\ row.name = IF row.hasLabel THEN CurLabel(row.package) ELSE row.package)
  /\ [](\A j \in UNION {UpdatedIdx("label", p, emitted) : p \in Pkgs} :
          emitted[j].success => CurLabel(emitted[j].package) = emitted[j].ref)
  /\ [][\A p \in Pkgs : ~Falsy(CurLabel(p)) => CurLabel(p)' = CurLabel(p)]_vars

\* C9 witness: a listing with one labelled and one unlabelled package, the
\* label being one that an extraction of this session stored.
C9_Witness ==
  /\ listing # <<>>
  /\ \E i, j \in 1..Len(listing[1]) :
       /\ listing[1][i].hasLabel /\ ~listing[1][j].hasLabel
       /\ appLabelCache.loaded
       /\ prefsLabels[listing[1][i].package] = "LabelA"
       /\ iconFiles[listing[1][i].package] = {}

NoDup(seq) == \A i, j \in 1..Len(seq) : seq[i] = seq[j] => i = j

\* C10: neither queue ever holds a package twice, the pending-sets are the
\* sets of queued packages, and no step adds a package whose artifact is
\* cached or which is already queued.
C10_NoDuplicates ==
  /\ [](/\ NoDup(labelQueue) /\ Range(labelQueue) = queuedLabelPackages
        /\ NoDup(iconQueue) /\ Range(iconQueue) = queuedIconPackages)
  /\ [][\A p \in Pkgs :
          /\ (~Falsy(CurLabel(p)) \/ p \in Range(labelQueue)) =>
               Len(SelectSeq(labelQueue', LAMBDA q : q = p))
                 <= Len(SelectSeq(labelQueue, LAMBDA q : q = p))
          /\ (CurIcon(p) # NoIcon \/ p \in Range(iconQueue)) =>
               Len(SelectSeq(iconQueue', LAMBDA q : q = p))
                 <= Len(SelectSeq(iconQueue, LAMBDA q : q = p))]_vars

\* C10 witness: a listing of two packages has just asked again for a label
\* that is queued and for one that is cached; the queue still holds the one
\* request.
C10_Witness ==
  /\ listing # <<>> /\ Len(listing[1]) = 2
  /\ \E p \in Pkgs :
       /\ reqHist["label"][p] \in {"cleanDup", "busyDup"}
       /\ labelQueue = <<p>>
  /\ \E i \in 1..Len(listing[1]) : listing[1][i].hasLabel

\* the queue items of kind k shifted by the last step, in the order of the shifts
DequeuedSeq(k) ==
  LET S == {d \in dequeued : d.kind = k}
  IN [i \in 1..Cardinality(S) |->
        CHOOSE d \in S : Cardinality({e \in S : e.n < d.n}) = i - 1]
PkgsOf(seq) == [i \in 1..Len(seq) |-> seq[i].package]
\* the packages of the 'started' events of kind k sent by the last step, in order
StartedSeq(k) == PkgsOf(SelectSeq(emitted, LAMBDA ev : ev.ch = StartedCh(k)))
\* seq lists some of the rows of the listing in the listing's order
InListingOrder(seq, rows) ==
  \A i, j \in 1..Len(seq) :
    i < j => \E a, b \in 1..Len(rows) :
               a < b /\ rows[a].package = seq[i] /\ rows[b].package = seq[j]

\* C11: within one queue kind the items are taken, and their extractions
\* started, in the order in which they were accepted: a step takes a prefix of
\* the queue, what it leaves stays ahead of what it accepts, and the requests
\* of one listing are accepted in the listing's order.
C11_FifoOrder ==
  [][\A k \in Kinds :
       LET old == QueueOf(k)
           taken == DequeuedSeq(k)'
           all == PkgsOf(taken) \o QueueOf(k)'
           accepted == SubSeq(all, Len(old) + 1, Len(all))
       IN /\ Len(all) >= Len(old)
          /\ SubSeq(all, 1, Len(old)) = old
          /\ StartedSeq(k)' = PkgsOf(SelectSeq(taken, LAMBDA d : d.how = "fresh"))
          /\ IF listing' # <<>> THEN InListingOrder(accepted, listing'[1])
                                ELSE Len(accepted) <= 1]_vars

\* C11 witness: the label worker has just settled an item and started the
\* older of two requests that were accepted while it was extracting.
C11_Witness ==
  /\ ran.by = "label"
  /\ labelQueue # <<>>
  /\ \E d \in dequeued : d.kind = "label" /\ d.how = "fresh" /\ d.hist # "none"

\* the packages for which a request of kind k is made by the last step: the
\* rows of a listing, and for icons the package whose label was just stored
\* (rememberAppLabel calls queueAppIcons)
Requested(k) ==
  {p \in Pkgs : \/ listing # <<>> /\ p \in Range(PkgsOf(listing[1]))
                \/ k = "icon" /\ \E x \in settled :
                                   x.kind = "label" /\ x.package = p /\ ~Falsy(x.res)}
\* a list-packages request naming p leaves a task of kind k for p: queued, or
\* started at once
FreshTaskOnRequest(k, p) ==
  LET s == listUserPackages(Cur, <<p>>)
  IN \/ p \in Range(IF k = "label" THEN s.labelQueue ELSE s.iconQueue)
     \/ StartedIdx(k, p, s.emitted) # {}

\* C12: tasks are never retried automatically: a 'started' is sent only for a
\* package taken from the queue, and a package enters the queue only by a
\* request made in that step; and once a task has settled with a failure, a
\* new list-packages request for the package enqueues a fresh task.
C12_NoRetryFreshOnRequest ==
  /\ [][\A k \in Kinds :
       /\ \A p \in Range(StartedSeq(k)') :
            /\ \E d \in dequeued' : d.kind = k /\ d.package = p /\ d.how = "fresh"
            /\ p \in Range(QueueOf(k)) \cup Requested(k)'
       /\ \A p \in Range(QueueOf(k)') : p \in Range(QueueOf(k)) \cup Requested(k)']_vars
  /\ [](\A x \in settled : Falsy(x.res) => FreshTaskOnRequest(x.kind, x.package))

\* the first part of C12 alone, which holds
C12_NoAutomaticRetry ==
  [][\A k \in Kinds :
       /\ \A p \in Range(StartedSeq(k)') :
            /\ \E d \in dequeued' : d.kind = k /\ d.package = p /\ d.how = "fresh"
            /\ p \in Range(QueueOf(k)) \cup Requested(k)'
       /\ \A p \in Range(QueueOf(k)') : p \in Range(QueueOf(k)) \cup Requested(k)']_vars

\* C12 witness: an icon extraction has just failed and left a file of the
\* package in the icon cache directory, so that a new request finds it cached.
C12_Witness ==
  \E x \in settled :
    /\ x.kind = "icon" /\ Falsy(x.res)
    /\ iconFiles[x.package] # {}
    /\ ~FreshTaskOnRequest("icon", x.package)

\* C13: the icon cache directory holds at most one file per package across
\* the known extensions: every write of an icon file first removes the
\* package's files under the other extensions.
C13_OneIconFile == \A p \in Pkgs : Cardinality(iconFiles[p]) <= 1

\* C13 witness: an icon was written under an extension other than png after
\* a failed composition had left <pkg>.png behind; only the new file exists.
C13_Witness ==
  \E p \in Pkgs, i \in 1..Len(iconWorkers) :
    /\ iconWorkers[i].pkg = p /\ iconWorkers[i].pc = "cleanup"
    /\ iconWorkers[i].res \in {"svg", "webp"}
    /\ [package |-> p, ext |-> "png"] \in cleared
    /\ iconFiles[p] = {iconWorkers[i].res}

\* C14: the label map stored in the preferences equals the in-memory label
\* cache once that cache is loaded, in particular after every label update;
\* and a label is changed, in memory or in the preferences, only by a turn of
\* the label worker, which stores exactly the one label it has just extracted.
C14_PrefsMirrorMemory ==
  /\ [](appLabelCache.loaded => appLabelCache.map = prefsLabels)
  /\ [][(prefsLabels' # prefsLabels \/ \E p \in Pkgs : CurLabel(p)' # CurLabel(p)) =>
          /\ ran'.by = "label"
          /\ Len(labelWorkers) = 1
          /\ \E x \in settled' :
               /\ x.kind = "label" /\ ~Falsy(x.res)
               /\ prefsLabels' = [prefsLabels EXCEPT ![x.package] = x.res]
               /\ appLabelCache'.map = prefsLabels']_vars

\* C14 witness: the label worker has just stored a label next to a label that
\* the preferences already held; file and memory hold both.
C14_Witness ==
  /\ ran.by = "label"
  /\ \E x \in settled, q \in Pkgs :
       /\ x.kind = "label" /\ ~Falsy(x.res) /\ q # x.package
       /\ prefsLabels[x.package] = x.res /\ prefsLabels[q] \in Labels
       /\ appLabelCache.map = prefsLabels

\* the position of the first occurrence of ext in the normalized preference
\* list of the call
PreferredAt(ext) ==
  LET extensions == normalizePreferredExtensions(resolveCall.preferredExtensions)
  IN Min({i \in 1..Len(extensions) : extensions[i] = ext})
\* the calls of the resolver that searched by type and name
ByTypeNameCalls ==
  {o \in Range(resolverOutput) :
     o.working.type # "" /\ o.working.name # "" /\ o.working.path = ""}
\* the element of the matches array of APK i for the entry found in that APK
FoundMatch(o, i) ==
  CHOOSE m \in Range(o.matches[i]) : m.entry = o.found[i]

\* C15: extension priority dominates density: within one APK the entry found
\* for a reference by type and name has the extension that comes first in
\* preferredExtensions among the extensions of all matching entries, whatever
\* the density qualifiers of the entries.
C15_ExtensionDominates ==
  \A o \in ByTypeNameCalls : \A i \in DOMAIN o.matches :
    o.matches[i] # <<>> =>
      /\ o.found[i] \in {m.entry : m \in Range(o.matches[i])}
      /\ \A m \in Range(o.matches[i]) :
           PreferredAt(FoundMatch(o, i).extension) <= PreferredAt(m.extension)

\* C15 witness: with .png preferred to .xml, base.apk holds the icon as a
\* .png at mdpi and as a .xml at xxxhdpi, and the .png was found.
C15_Witness ==
  /\ resolverOutput # <<>>
  /\ resolveCall.preferredExtensions = <<".png", ".webp", ".xml", ".xml.flat">>
  /\ {"res/mipmap-mdpi/ic.png", "res/mipmap-xxxhdpi/ic.xml"}
       \subseteq Range(resolveCall.apks[1].entries)
  /\ resolverOutput[1].found[1] = "res/mipmap-mdpi/ic.png"
  /\ resolverOutput[1].result.entryPath = "res/mipmap-mdpi/ic.png"

\* the configuration qualifiers of the resource directory of an entry path:
\* the hyphen-separated parts of the directory name after the resource type
DirQualifiers(entry) ==
  LET parts == split(entry, "/")
  IN IF Len(parts) < 3 \/ toLowerCase(parts[1]) # "res" THEN <<>>
     ELSE Tail(split(parts[2], "-"))
\* the density score of an entry path as the scoring rule states it: the best
\* score among the qualifiers of its directory, zero without one
StatedScore(entry) ==
  Max({0} \cup {qualifierScore(q) : q \in Range(DirQualifiers(entry))})
RasterPreferred == <<".png", ".webp", ".jpg", ".jpeg">>

\* C16: among the matches of one APK that have the extension priority of the
\* entry found, none has a higher density score than the entry found; and with
\* the raster preference list, candidates at xxhdpi, at hdpi and without
\* qualifier give the xxhdpi entry.
C16_DensityRanking ==
  \A o \in ByTypeNameCalls : \A i \in DOMAIN o.matches :
    o.matches[i] # <<>> =>
      LET found == FoundMatch(o, i)
          at(q) == {m \in Range(o.matches[i]) : q \in Range(DirQualifiers(m.entry))}
          plain == {m \in Range(o.matches[i]) : DirQualifiers(m.entry) = <<>>}
      IN /\ \A m \in Range(o.matches[i]) :
              m.priority = found.priority => StatedScore(m.entry) <= StatedScore(found.entry)
         /\ ( /\ resolveCall.preferredExtensions = RasterPreferred
              /\ at("xxhdpi") # {} /\ at("hdpi") # {} /\ plain # {}
              /\ Range(o.matches[i]) = at("xxhdpi") \cup at("hdpi") \cup plain )
            => found \in at("xxhdpi")

\* C16 with the score that getDensityScore computes, which holds
C16_HighestComputedScore ==
  \A o \in ByTypeNameCalls : \A i \in DOMAIN o.matches :
    o.matches[i] # <<>> =>
      \A m \in Range(o.matches[i]) :
        m.priority = FoundMatch(o, i).priority =>
          m.densityScore <= FoundMatch(o, i).densityScore

\* C16 witness: base.apk holds the icon at xxhdpi, at hdpi and without
\* qualifier, the raster list is preferred, and the xxhdpi entry was found.
C16_Witness ==
  /\ resolverOutput # <<>>
  /\ resolveCall.preferredExtensions = RasterPreferred
  /\ Range(resolveCall.apks[1].entries) =
       {"res/mipmap-xxhdpi/ic.png", "res/mipmap-hdpi/ic.png", "res/mipmap/ic.png"}
  /\ resolverOutput[1].found[1] = "res/mipmap-xxhdpi/ic.png"

\* the positions of the APKs of the call in which findResourceEntry found an entry
ApksWithMatch(o) == {i \in DOMAIN o.found : o.found[i] # Null}

\* C17: APK order takes priority over the ranking inside an APK: the result
\* is the entry found in the first APK of the list that has any match, with
\* that APK's path and the entry's format, whatever the later APKs hold; it is
\* no match when no APK has one or the reference is an Android framework one.
C17_FirstApkWins ==
  \A o \in Range(resolverOutput) :
    IF ApksWithMatch(o) = {} \/ o.working.android
      THEN o.result = NoMatch
      ELSE LET i == Min(ApksWithMatch(o))
           IN /\ o.result.apkPath = resolveCall.apks[i].localPath
              /\ o.result.entryPath = o.found[i]
              /\ o.result.format = getFormatFromEntry(o.found[i])

\* C17 witness: base.apk holds the icon only as .webp at ldpi, the split APK
\* holds it as .png at xxxhdpi, and the entry of base.apk is the result.
C17_Witness ==
  /\ resolverOutput # <<>>
  /\ Len(resolveCall.apks) = 2
  /\ resolveCall.apks[1].localPath = "base.apk"
  /\ resolveCall.preferredExtensions = RasterPreferred
  /\ resolverOutput[1].found = <<"res/mipmap-ldpi/ic.webp", "res/mipmap-xxxhdpi/ic.png">>
  /\ resolverOutput[1].result.apkPath = "base.apk"
  /\ resolverOutput[1].result.entryPath = "res/mipmap-ldpi/ic.webp"

\* match f is ranked before match m: higher extension priority, or the same
\* priority and a higher density score; equal in both when neither is before
RankedBefore(f, m) ==
  \/ f.priority > m.priority
  \/ f.priority = m.priority /\ f.densityScore > m.densityScore
Tied(f, m) == f.priority = m.priority /\ f.densityScore = m.densityScore

\* C18 as stated: the entry found in an APK is the maximum of its matches
\* under (extension priority, density score, path), each descending, so that
\* among matches tied in priority and score it has the greatest path.
C18_Original ==
  \A o \in ByTypeNameCalls : \A i \in DOMAIN o.matches :
    o.matches[i] # <<>> =>
      \A m \in Range(o.matches[i]) :
        \/ RankedBefore(FoundMatch(o, i), m)
        \/ Tied(FoundMatch(o, i), m) /\ localeCompare(FoundMatch(o, i).entry, m.entry) >= 0

\* C18: the entry found in an APK is the first of its matches under extension
\* priority descending, then density score descending, then path ascending:
\* among matches tied in priority and score it has the least path.
C18_LeastPathAmongTies ==
  \A o \in ByTypeNameCalls : \A i \in DOMAIN o.matches :
    o.matches[i] # <<>> =>
      \A m \in Range(o.matches[i]) :
        \/ RankedBefore(FoundMatch(o, i), m)
        \/ Tied(FoundMatch(o, i), m) /\ localeCompare(FoundMatch(o, i).entry, m.entry) <= 0

\* C18 witness: base.apk holds the .png icon in two hdpi directories, both
\* with score 500, and the entry with the lesser path was found.
C18_Witness ==
  /\ resolverOutput # <<>>
  /\ {"res/mipmap-hdpi/ic.png", "res/mipmap-en-hdpi/ic.png"}
       \subseteq {m.entry : m \in Range(resolverOutput[1].matches[1])}
  /\ \A m \in Range(resolverOutput[1].matches[1]) :
       m.priority = resolverOutput[1].matches[1][1].priority => m.densityScore <= 500
  /\ resolverOutput[1].found[1] = "res/mipmap-en-hdpi/ic.png"

\* every match that the resolver scored
ScoredMatches ==
  UNION {Range(o.matches[i]) : o \in Range(resolverOutput), i \in 1..Len(resolveCall.apks)}
\* the last of the qualifiers of the directory of an entry, "" without one
LastQualifier(entry) ==
  IF DirQualifiers(entry) = <<>> THEN ""
  ELSE DirQualifiers(entry)[Len(DirQualifiers(entry))]

\* the scored matches whose directory has qualifier q
ScoredAt(q) == {m \in ScoredMatches : q \in Range(DirQualifiers(m.entry))}
\* the scored matches whose directory has a qualifier of the table
ScoredInTable == UNION {ScoredAt(q) : q \in DOMAIN DENSITY_QUALIFIER_SCORES}

\* C19: the density score of an entry path is the score of the density
\* qualifier of its directory: the table score of a recognized one, n for
\* <n>dpi, zero without one; and among the entries with a qualifier of the
\* table those at xxxhdpi score highest, those at ldpi lowest, and those at
\* nodpi or anydpi strictly between the two.
C19_DensityScoring ==
  /\ \A m \in ScoredMatches : m.densityScore = StatedScore(m.entry)
  /\ \A n \in ScoredInTable :
       /\ \A m \in ScoredAt("xxxhdpi") : n.densityScore <= m.densityScore
       /\ \A m \in ScoredAt("ldpi") : m.densityScore <= n.densityScore
  /\ \A m \in ScoredAt("nodpi") \cup ScoredAt("anydpi") :
       /\ \A n \in ScoredAt("ldpi") : n.densityScore < m.densityScore
       /\ \A n \in ScoredAt("xxxhdpi") : m.densityScore < n.densityScore

\* C19 for the qualifiers other than sdpi and for the last qualifier of the
\* directory only, which holds
C19_LastQualifierScored ==
  /\ \A q \in DOMAIN DENSITY_QUALIFIER_SCORES :
       /\ DENSITY_QUALIFIER_SCORES[q] <= DENSITY_QUALIFIER_SCORES["xxxhdpi"]
       /\ q # "sdpi" => DENSITY_QUALIFIER_SCORES["ldpi"] <= DENSITY_QUALIFIER_SCORES[q]
  /\ \A q \in {"nodpi", "anydpi"} :
       /\ DENSITY_QUALIFIER_SCORES["ldpi"] < DENSITY_QUALIFIER_SCORES[q]
       /\ DENSITY_QUALIFIER_SCORES[q] < DENSITY_QUALIFIER_SCORES["xxxhdpi"]
  /\ \A m \in ScoredMatches : m.densityScore = qualifierScore(LastQualifier(m.entry))

\* C19 witness: the resolver scored an entry of an xxhdpi directory with a
\* version qualifier next to an entry of a 640dpi directory.
C19_Witness ==
  /\ \E m \in ScoredMatches : m.entry = "res/mipmap-xxhdpi-v4/ic.png" /\ m.densityScore = 0
  /\ \E m \in ScoredMatches : m.entry = "res/mipmap-640dpi/ic.png" /\ m.densityScore = 640

\* the number a resource id denotes: its hexadecimal digits in lower case,
\* without the @ and 0x prefixes
IdNumber(id) ==
  LET lower == toLowerCase(stripAt(id))
  IN IF StartsWith(lower, "0x") THEN SubSeq(lower, 3, Len(lower)) ELSE lower
\* the positions of the APKs whose resource dump lists the number of the id
ApksListing(id) ==
  {i \in 1..Len(resolveCall.apks) :
     \E j \in 1..Len(getResourceTable(resolveCall.apks[i]).value) :
       toLowerCase(getResourceTable(resolveCall.apks[i]).value[j].hex) = IdNumber(id)}
ByIdCalls == {o \in Range(resolverOutput) : resolveCall.resource.resourceId # ""}

\* C20: a reference by id is converted to the (type, name) that the first APK
\* of the list listing the id gives it, whatever later APKs list, and resolved
\* as that reference by type and name; an id that no APK lists is not
\* converted, no file is searched for it and the result is no match.
C20_ByIdFirstTable ==
  \A o \in ByIdCalls :
    LET id == resolveCall.resource.resourceId
    IN IF ApksListing(id) = {}
         THEN /\ o.working = resolveCall.resource
              /\ \A i \in DOMAIN o.found : o.found[i] = Null
              /\ o.result = NoMatch
         ELSE LET first == resolveCall.apks[Min(ApksListing(id))].dump
                  line == first[Max({j \in 1..Len(first) :
                                       toLowerCase(first[j].hex) = IdNumber(id)})]
              IN /\ o.working.type = line.type /\ o.working.name = line.name
                 /\ o.result = resolveResourceReference(ByTypeName(line.type, line.name),
                                                        resolveCall.apks,
                                                        resolveCall.preferredExtensions)

\* C20 for the ids that are passed without the 0x prefix, which holds; an id
\* with the prefix is never converted
C20_KeyWithoutPrefix ==
  \A o \in ByIdCalls :
    LET id == resolveCall.resource.resourceId
    IN IF ApksListing(id) = {} \/ StartsWith(toLowerCase(stripAt(id)), "0x")
         THEN /\ o.working = resolveCall.resource
              /\ \A i \in DOMAIN o.found : o.found[i] = Null
              /\ o.result = NoMatch
         ELSE LET first == resolveCall.apks[Min(ApksListing(id))].dump
                  line == first[Max({j \in 1..Len(first) :
                                       toLowerCase(first[j].hex) = IdNumber(id)})]
              IN /\ o.working.type = line.type /\ o.working.name = line.name
                 /\ o.result = resolveResourceReference(ByTypeName(line.type, line.name),
                                                        resolveCall.apks,
                                                        resolveCall.preferredExtensions)

\* C20 witness: the icon is referred to as 0x7f0d0000, base.apk lists
\* 0x7f0d0000 as mipmap/ic and holds res/mipmap-hdpi/ic.png, and the result is
\* no match.
C20_Witness ==
  /\ resolverOutput # <<>>
  /\ resolveCall.resource.resourceId = "0x7f0d0000"
  /\ resolveCall.apks[1].dump = <<[hex |-> "7f0d0000", type |-> "mipmap", name |-> "ic"]>>
  /\ resolveCall.apks[1].entries = <<"res/mipmap-hdpi/ic.png">>
  /\ resolverOutput[1].result = NoMatch

\* C21: a reference flagged as belonging to the android namespace resolves to
\* no match for every APK list and every preference list, also when an APK
\* holds an entry that matches its type and name.
C21_AndroidNeverResolves ==
  \A o \in Range(resolverOutput) : resolveCall.resource.android => o.result = NoMatch

\* C21 witness: the reference android:mipmap/ic was resolved against a
\* base.apk in which findResourceEntry finds res/mipmap-hdpi/ic.png for that
\* type and name, and the result is no match.
C21_Witness ==
  /\ resolverOutput # <<>>
  /\ resolveCall.resource = Android("mipmap", "ic")
  /\ resolverOutput[1].found[1] = "res/mipmap-hdpi/ic.png"
  /\ resolverOutput[1].result = NoMatch

(* ------------------------------------------- adaptive layers and colours *)
HexDigits == "0123456789abcdef"
HexValue ==
  [c \in {CharAt(HexDigits, i) : i \in 1..Len(HexDigits)} |->
     (CHOOSE i \in 1..Len(HexDigits) : CharAt(HexDigits, i) = c) - 1]
\* /^[0-9a-f]+$/i
IsHex(s) == s # "" /\ \A i \in 1..Len(s) : toLowerCase(CharAt(s, i)) \in DOMAIN HexValue
\* Number.parseInt(s, 16) of a string of lower-case hexadecimal digits
RECURSIVE parseHex(_)
parseHex(s) ==
  IF s = "" THEN 0
  ELSE 16 * parseHex(SubSeq(s, 1, Len(s) - 1)) + HexValue[CharAt(s, Len(s))]
WhiteSpace == {" ", "\t", "\n", "\r"}
\* String.prototype.trim
RECURSIVE trim(_)
trim(s) ==
  IF s = "" THEN ""
  ELSE IF CharAt(s, 1) \in WhiteSpace THEN trim(SubSeq(s, 2, Len(s)))
  ELSE IF CharAt(s, Len(s)) \in WhiteSpace THEN trim(SubSeq(s, 1, Len(s) - 1))
  ELSE s
\* the class [\w\.] of the regular expression in parseResourceValue
WordChars == "abcdefghijklmnopqrstuvwxyz0123456789_."
IsWordChar(c) == Positions(WordChars, toLowerCase(c)) # {}

isColorValue(value) ==
  /\ value # ""
  /\ LET trimmed == trim(value)
     IN /\ StartsWith(trimmed, "#")
        /\ Len(trimmed) - 1 \in {3, 4, 6, 8}
        /\ IsHex(SubSeq(trimmed, 2, Len(trimmed)))

\* trimmed.split('').map(ch => `${ch}${ch}`).join('')
RECURSIVE doubled(_)
doubled(s) ==
  IF s = "" THEN "" ELSE CharAt(s, 1) \o CharAt(s, 1) \o doubled(SubSeq(s, 2, Len(s)))

normalizeHexColor(value) ==
  IF ~isColorValue(value) THEN Null
  ELSE LET trimmed == toLowerCase(SubSeq(trim(value), 2, Len(trim(value))))
       IN IF Len(trimmed) = 3 \/ Len(trimmed) = 4 THEN "#" \o doubled(trimmed)
          ELSE "#" \o trimmed

NoRgba == [r |-> 0 - 1, g |-> 0 - 1, b |-> 0 - 1, a |-> 0 - 1]
colorStringToRgba(color) ==
  IF color = "" \/ color = Null \/ normalizeHexColor(color) = Null THEN NoRgba
  ELSE LET hex == SubSeq(normalizeHexColor(color), 2, Len(normalizeHexColor(color)))
           offset == IF Len(hex) = 8 THEN 2 ELSE 0
       IN IF Len(hex) # 8 /\ Len(hex) # 6 THEN NoRgba
          ELSE [r |-> parseHex(SubSeq(hex, offset + 1, offset + 2)),
                g |-> parseHex(SubSeq(hex, offset + 3, offset + 4)),
                b |-> parseHex(SubSeq(hex, offset + 5, offset + 6)),
                a |-> IF Len(hex) = 8 THEN parseHex(SubSeq(hex, 1, 2)) ELSE 255]

ANDROID_COLOR_MAP ==
  [transparent |-> "#00000000", black |-> "#ff000000", white |-> "#ffffffff"]

\* the object parseResourceValue returns; an absent property is "" (FALSE for
\* android), and null is NoResource
Resource(raw, resourceId, type, name, android, path, color) ==
  [raw |-> raw, resourceId |-> resourceId, type |-> type, name |-> name,
   android |-> android, path |-> path, color |-> color]
NoResource == Resource("", "", "", "", FALSE, "", "")

parseResourceValue(rawValue) ==
  LET value == trim(rawValue)
  IN IF rawValue = "" \/ value = "" THEN NoResource
     ELSE IF StartsWith(value, "@")
       THEN LET withoutAt == SubSeq(value, 2, Len(value))
                lower == toLowerCase(withoutAt)
                remainder == SubSeq(withoutAt, Len("android:") + 1, Len(withoutAt))
                androidSegments == split(remainder, "/")
                segments == split(withoutAt, "/")
            IN IF StartsWith(lower, "0x") /\ IsHex(SubSeq(lower, 3, Len(lower)))
                 THEN Resource(value, lower, "", "", FALSE, "", "")
               ELSE IF /\ StartsWith(lower, "android:")
                       /\ remainder # "" /\ IsWordChar(CharAt(remainder, 1))
                       /\ Len(androidSegments) = 2
                 THEN Resource(value, "", androidSegments[1], androidSegments[2], TRUE, "", "")
               ELSE IF Len(segments) = 2
                 THEN Resource(value, "", segments[1], segments[2], FALSE, "", "")
               ELSE Resource(value, "", "", "", FALSE, "", "")
     ELSE IF isColorValue(value)
       THEN Resource(value, "", "", "", FALSE, "", normalizeHexColor(value))
     ELSE Resource(value, "", "", "", FALSE, value, "")

\* a layer as resolveAdaptiveLayerResource returns it; null is NoLayer
Layer(type, color, format) == [type |-> type, color |-> color, format |-> format]
NoLayer == Layer("", "", "")
LayerExtensions == <<".png", ".webp", ".jpg", ".jpeg", ".xml", ".xml.flat">>

\* whether resolveResourceReference reads a resource table (getResourceTable)
\* or an archive listing (getApkEntries) for this reference
consults(resource, apks) ==
  /\ apks # <<>>
  /\ \/ resource.resourceId # "" /\ resource.type = "" /\ resource.name = ""
     \/ ~workingResource(resource, apks).android

\* resolveAdaptiveLayerResource without the table of platform colours
resolveAdaptiveLayerResource_NoColorMap(drawableRef, apks, materialized) ==
  LET resource == parseResourceValue(drawableRef)
  IN IF drawableRef = "" \/ resource = NoResource
       THEN [layer |-> NoLayer, lookedUp |-> FALSE]
     ELSE IF resource.color # ""
       THEN [layer |-> Layer("color", resource.color, "color"), lookedUp |-> FALSE]
     ELSE LET found == resolveResourceReference(resource, apks, LayerExtensions)
          IN [layer |-> IF found = NoMatch THEN NoLayer ELSE materialized,
              lookedUp |-> consults(resource, apks)]

\* resolveAdaptiveLayerResource(adaptiveContent, layerTag, apks, ...), given
\* the attribute value extractDrawableFromXml finds for the layer ("" when it
\* finds none) and the layer materializeResolvedResource makes of a resolved
\* entry; lookedUp tells whether an archive or a resource table was consulted
resolveAdaptiveLayerResource(drawableRef, apks, materialized) ==
  LET resource == parseResourceValue(drawableRef)
  IN IF drawableRef = "" \/ resource = NoResource
       THEN [layer |-> NoLayer, lookedUp |-> FALSE]
     ELSE IF resource.color # ""
       THEN [layer |-> Layer("color", resource.color, "color"), lookedUp |-> FALSE]
     ELSE IF /\ resource.android /\ resource.type = "color" /\ resource.name # ""
             /\ toLowerCase(resource.name) \in DOMAIN ANDROID_COLOR_MAP
       THEN [layer |-> Layer("color",
                             normalizeHexColor(ANDROID_COLOR_MAP[toLowerCase(resource.name)]),
                             "color"),
             lookedUp |-> FALSE]
     ELSE LET found == resolveResourceReference(resource, apks, LayerExtensions)
          IN [layer |-> IF found = NoMatch THEN NoLayer ELSE materialized,
              lookedUp |-> consults(resource, apks)]

(* --------------------------------- the pure functions applied to inputs *)
\* attribute values of <foreground> and <background> elements
DrawableRefs ==
  {"@android:color/white", "@android:color/black", "@android:color/transparent",
   " @android:color/white ", "@android:color/holo_blue_light", "@android:color/",
   "@android:drawable/sym_def_app_icon", "@android:mipmap/ic_fg", "@*android:color/white",
   "@android:white", "@color/white", "@mipmap/ic_fg", "@0x7f0d0000",
   "res/mipmap-hdpi/ic_fg.png", "#fff", "#80FF0000", "#12345", ""}
LayerEntryUniverse ==
  <<"res/color/white.xml", "res/mipmap-hdpi/ic_fg.png", "res/color/holo_blue_light.xml">>
MaxLayerEntries == 2
\* what materializeResolvedResource can make of a resolved entry
MaterializedLayers == {NoLayer, Layer("raster", "", "png"), Layer("vector", "", "svg")}
FnCall(fn, args) == [fn |-> fn, args |-> args]
LayerCalls ==
  {FnCall("resolveAdaptiveLayerResource", <<d, a, m>>) :
     d \in DrawableRefs,
     a \in {<<>>} \cup ApkLists(EntryLists(LayerEntryUniverse, MaxLayerEntries), {<<>>}, {<<>>}),
     m \in MaterializedLayers}

ResolveLayer ==
  /\ fnCall.fn = "resolveAdaptiveLayerResource" /\ fnOutput = <<>>
  /\ fnOutput' = <<resolveAdaptiveLayerResource(fnCall.args[1], fnCall.args[2],
                                                 fnCall.args[3])>>
  /\ UNCHANGED <<mainVars, resolverVars, fnCall, sideVars>>

(* -------------------------------------------------- the badging parsers *)
\* the position in s, from i on, of the first quote that the body of
\* /:'((?:\\'|[^'])*)'/ cannot take, 0 if there is none: a backslash takes
\* the quote after it
RECURSIVE firstFreeQuote(_, _)
firstFreeQuote(s, i) ==
  IF i > Len(s) THEN 0
  ELSE IF CharAt(s, i) = "\\" /\ i < Len(s) /\ CharAt(s, i + 1) = "'"
    THEN firstFreeQuote(s, i + 2)
  ELSE IF CharAt(s, i) = "'" THEN i
  ELSE firstFreeQuote(s, i + 1)

\* match[1] of target.match(/:'((?:\\'|[^'])*)'/), Null when there is no
\* match: the body runs to the first free quote, or, when the text ends
\* first, backtracks to the last quote
quoted(target) ==
  LET starts == {i \in 1..Len(target) - 1 : SubSeq(target, i, i + 1) = ":'"}
  IN IF starts = {} THEN Null
     ELSE LET from == Min(starts) + 2
              free == firstFreeQuote(target, from)
              quotes == {i \in from..Len(target) : CharAt(target, i) = "'"}
          IN IF free # 0 THEN SubSeq(target, from, free - 1)
             ELSE IF quotes # {} THEN SubSeq(target, from, Max(quotes) - 1)
             ELSE Null

\* s.replace(/\\'/g, "'")
RECURSIVE unescapeQuotes(_)
unescapeQuotes(s) ==
  IF s = "" THEN ""
  ELSE IF Len(s) >= 2 /\ SubSeq(s, 1, 2) = "\\'" THEN "'" \o unescapeQuotes(SubSeq(s, 3, Len(s)))
  ELSE CharAt(s, 1) \o unescapeQuotes(SubSeq(s, 2, Len(s)))

\* lines.find(line => line.startsWith(prefix)), Null when no line does
findLine(lines, prefix) ==
  LET at == {i \in 1..Len(lines) : StartsWith(lines[i], prefix)}
  IN IF at = {} THEN Null ELSE lines[Min(at)]

\* output.split(/\r?\n/).map(line => line.trim()).filter(Boolean), given
\* the lines of the output
trimmedLines(output) ==
  SelectSeq([i \in 1..Len(output) |-> trim(output[i])], LAMBDA line : line # "")

\* parseLabelFromDump preferring the generic line
parseLabelFromDump_GenericFirst(output) ==
  LET lines == trimmedLines(output)
      preferred == findLine(lines, "application-label-es:'")
      fallback == findLine(lines, "application-label:'")
      target == IF fallback # Null THEN fallback ELSE preferred
  IN IF output = <<>> \/ target = Null \/ quoted(target) = Null THEN Null
     ELSE unescapeQuotes(quoted(target))

\* parseLabelFromDump(output), given the lines of the output of
\* `aapt2 dump badging`
parseLabelFromDump(output) ==
  LET lines == trimmedLines(output)
      preferred == findLine(lines, "application-label-es:'")
      fallback == findLine(lines, "application-label:'")
      target == IF preferred # Null THEN preferred ELSE fallback
  IN IF output = <<>> \/ target = Null \/ quoted(target) = Null THEN Null
     ELSE unescapeQuotes(quoted(target))

\* lines of `aapt2 dump badging`
BadgingLines ==
  <<"application-label:'App'", "application-label-es:'Aplicacion'",
    "application-label-fr:'Appli'", "  application-label-es:'Otra'  ",
    "application-label:'Bob\\'s \\'App\\''", "package: name='com.a'", "",
    "application-label:'open">>
MaxLines == 3
\* the sequences of at most n different lines of U
RECURSIVE LineSeqs(_, _)
LineSeqs(U, n) ==
  IF n = 0 THEN {<<>>}
  ELSE LineSeqs(U, n - 1)
       \cup {Append(s, x) : s \in {t \in LineSeqs(U, n - 1) : Len(t) = n - 1},
                             x \in Range(U)}
LabelCalls ==
  {FnCall("parseLabelFromDump", <<output>>) :
     output \in {s \in LineSeqs(BadgingLines, MaxLines) :
                   \A i, j \in 1..Len(s) : i # j => s[i] # s[j]}}

ParseLabel ==
  /\ fnCall.fn = "parseLabelFromDump" /\ fnOutput = <<>>
  /\ fnOutput' = <<parseLabelFromDump(fnCall.args[1])>>
  /\ UNCHANGED <<mainVars, resolverVars, fnCall, sideVars>>

\* an icon of parseApplicationIconLines; NoIconEntry is null
IconEntry(density, value) == [density |-> density, value |-> value]
NoIconEntry == IconEntry(0 - 1, "")

\* the length of the run of digits at the start of s
RECURSIVE digitRun(_)
digitRun(s) ==
  IF s # "" /\ IsDigits(CharAt(s, 1)) THEN 1 + digitRun(SubSeq(s, 2, Len(s))) ELSE 0

\* line.match(/^application-icon-(\d+):'(.*)'$/) as the icon it yields,
\* NoIconEntry when the line does not match or its value is empty
iconOfLine(line) ==
  LET prefix == "application-icon-"
      rest == SubSeq(line, Len(prefix) + 1, Len(line))
      n == digitRun(rest)
      tail == SubSeq(rest, n + 1, Len(rest))
  IN IF /\ StartsWith(line, prefix) /\ n > 0
        /\ StartsWith(tail, ":'") /\ Len(tail) >= 3 /\ EndsWith(tail, "'")
       THEN LET value == SubSeq(tail, 3, Len(tail) - 1)
            IN IF value = "" THEN NoIconEntry
               ELSE IconEntry(parseInt(SubSeq(rest, 1, n)), value)
       ELSE NoIconEntry

\* parseApplicationIconLines(output), given the lines of the output
parseApplicationIconLines(output) ==
  SelectSeq([i \in 1..Len(output) |-> iconOfLine(output[i])],
            LAMBDA icon : icon # NoIconEntry)

\* Number.MAX_SAFE_INTEGER is 2^53 - 1; the model takes the greatest integer
\* it can compute with, which is above every density of its inputs
MAX_SAFE_INTEGER == 2147483647
ANY_DENSITY == 65535
scoreForIcon(icon) == IF icon.density = ANY_DENSITY THEN MAX_SAFE_INTEGER ELSE icon.density

isRasterIcon(icon) ==
  LET lower == toLowerCase(icon.value)
  IN icon.value # "" /\ (EndsWith(lower, ".png") \/ EndsWith(lower, ".webp")
                         \/ EndsWith(lower, ".jpg") \/ EndsWith(lower, ".jpeg"))

\* the loops of selectBestApplicationIcon: the first icon of the greatest score
RECURSIVE bestOf(_, _)
bestOf(best, icons) ==
  IF icons = <<>> THEN best
  ELSE IF scoreForIcon(Head(icons)) > scoreForIcon(best) THEN bestOf(Head(icons), Tail(icons))
  ELSE bestOf(best, Tail(icons))

\* selectBestApplicationIcon that does not look at preferRaster
selectBestApplicationIcon_AnyFormat(icons, preferRaster) ==
  IF icons = <<>> THEN NoIconEntry ELSE bestOf(Head(icons), Tail(icons))

selectBestApplicationIcon(icons, preferRaster) ==
  LET rasterIcons == SelectSeq(icons, isRasterIcon)
  IN IF icons = <<>> THEN NoIconEntry
     ELSE IF preferRaster /\ rasterIcons # <<>>
       THEN bestOf(Head(rasterIcons), Tail(rasterIcons))
     ELSE bestOf(Head(icons), Tail(icons))

\* application-icon lines of `aapt2 dump badging`, and lines that are not
IconLines ==
  <<"application-icon-160:'res/mipmap-mdpi/ic.png'",
    "application-icon-640:'res/mipmap-xxxhdpi/ic.WEBP'",
    "application-icon-480:'res/mipmap-xxhdpi/ic.xml'",
    "application-icon-65534:'res/mipmap-anydpi-v26/ic.xml'",
    "application-icon-65535:'res/mipmap-anydpi-v26/ic.xml'",
    "application-icon-65535:'res/drawable/ic.jpg'",
    "application-icon-70000:'res/mipmap/big.png'",
    "application-icon-640:'res/mipmap-xxxhdpi/ic_round.png'",
    "application-icon-120:''", "application-label:'App'">>
MaxIconLines == 3
SelectCalls ==
  {FnCall("selectBestApplicationIcon", <<output, preferRaster>>) :
     output \in {s \in LineSeqs(IconLines, MaxIconLines) :
                   \A i, j \in 1..Len(s) : i # j => s[i] # s[j]},
     preferRaster \in BOOLEAN}

\* resolveIconFromApks, lines 399-400: the icons of the badging output and
\* the one selected
SelectIcon ==
  /\ fnCall.fn = "selectBestApplicationIcon" /\ fnOutput = <<>>
  /\ LET icons == parseApplicationIconLines(fnCall.args[1])
     IN fnOutput' = <<[icons |-> icons,
                       best |-> selectBestApplicationIcon(icons, fnCall.args[2])]>>
  /\ UNCHANGED <<mainVars, resolverVars, fnCall, sideVars>>

(* ------------------------------------------------------ adaptive icons *)
\* resolveAdaptiveLayerResource rejected: extracting or converting the layer
\* threw (extractEntryToTemp, convertVectorDrawableToSvg)
LayerThrew == Layer("<error>", "", "")
\* the icon cache as resolveIconFromApks reads and writes it
IconCache(files) ==
  [iconFiles |-> [p \in Pkgs |-> files], packageIconCache |-> [p \in Pkgs |-> NoIcon],
   cleared |-> {}]
\* how resolveIconFromApks ends: the extension of the file it returns, or an error
IconReturned(s, ext) == [cache |-> s, result |-> ext, threw |-> FALSE]
IconThrew(s) == [cache |-> s, result |-> Null, threw |-> TRUE]

\* lines 496-531: the foreground layer alone.  written: whether copyFile, or
\* sharp's toFile, succeeds
foregroundAlone(s, p, foregroundLayer, sharp, written) ==
  IF foregroundLayer.type = "raster" /\ foregroundLayer.format # ""
    THEN IF written THEN IconReturned(writeIcon(s, p, foregroundLayer.format),
                                      foregroundLayer.format)
         ELSE IconThrew(clearCachedIconFiles(s, p, foregroundLayer.format))
  ELSE IF foregroundLayer.type = "vector"
    THEN IF written THEN IconReturned(writeIcon(s, p, "svg"), "svg")
         ELSE IconThrew(clearCachedIconFiles(s, p, "svg"))
  ELSE IF /\ foregroundLayer.type = "color" /\ foregroundLayer.color # "" /\ sharp
          /\ colorStringToRgba(foregroundLayer.color) # NoRgba
    THEN IF written THEN IconReturned(writeIcon(s, p, "png"), "png")
         ELSE IconThrew(clearCachedIconFiles(s, p, "png"))
  ELSE IconThrew(s)

\* lines 485-494: the composition, when sharp is there.  composed: "ok",
\* "fails" (composeAdaptiveIcon throws before it writes) or "partial" (it
\* throws after <pkg>.png was created); the error is caught
afterCompose(s, p, sharp, composed) ==
  IF ~sharp THEN s
  ELSE IF composed = "ok" THEN writeIcon(s, p, "png")
  ELSE IF composed = "partial"
    THEN [clearCachedIconFiles(s, p, "png") EXCEPT !.iconFiles[p] = @ \cup {"png"}]
  ELSE clearCachedIconFiles(s, p, "png")

\* the adaptive part without the test of the foreground layer
adaptiveIcon_NoForegroundTest(s, p, backgroundLayer, foregroundLayer, sharp, composed, written) ==
  IF backgroundLayer = LayerThrew \/ foregroundLayer = LayerThrew THEN IconThrew(s)
  ELSE IF sharp /\ (backgroundLayer # NoLayer \/ foregroundLayer # NoLayer) /\ composed = "ok"
    THEN IconReturned(afterCompose(s, p, sharp, composed), "png")
  ELSE foregroundAlone(afterCompose(s, p, sharp, composed), p, foregroundLayer, sharp, written)

\* resolveIconFromApks, lines 478-531: the adaptive icon of package p, given
\* the two layers resolveAdaptiveLayerResource returned
adaptiveIcon(s, p, backgroundLayer, foregroundLayer, sharp, composed, written) ==
  IF backgroundLayer = LayerThrew \/ foregroundLayer = LayerThrew THEN IconThrew(s)
  ELSE IF foregroundLayer = NoLayer THEN IconThrew(s)
  ELSE IF sharp /\ composed = "ok"
    THEN IconReturned(afterCompose(s, p, sharp, composed), "png")
  ELSE foregroundAlone(afterCompose(s, p, sharp, composed), p, foregroundLayer, sharp, written)

\* the layers resolveAdaptiveLayerResource can return
AdaptiveLayers ==
  {NoLayer, LayerThrew, Layer("raster", "", "webp"), Layer("vector", "", "svg"),
   Layer("color", "#ff000000", "color")}
ComposeOutcomes == {"ok", "fails", "partial"}
AdaptiveCalls ==
  {FnCall("resolveIconFromApks", <<PkgNames[1], bg, fg, sharp, composed, written>>) :
     bg \in AdaptiveLayers, fg \in AdaptiveLayers, sharp \in BOOLEAN,
     composed \in ComposeOutcomes, written \in BOOLEAN}

\* resolveIconFromApks reaches its adaptive part with an empty icon cache
ResolveAdaptive ==
  /\ fnCall.fn = "resolveIconFromApks" /\ fnOutput = <<>>
  /\ LET a == fnCall.args
     IN fnOutput' = <<adaptiveIcon(IconCache({}), a[1], a[2], a[3], a[4], a[5], a[6])>>
  /\ UNCHANGED <<mainVars, resolverVars, fnCall, sideVars>>

FnCalls == LayerCalls \cup LabelCalls \cup SelectCalls \cup AdaptiveCalls
FnInit ==
  /\ MainInit
  /\ prefsLabels = [p \in Pkgs |-> ""] /\ aapt2Available
  /\ resolveCall = NoCall /\ resolverOutput = <<>>
  /\ fnCall \in FnCalls
  /\ fnOutput = <<>>
  /\ SideIdle
FnNext == ResolveLayer \/ ParseLabel \/ SelectIcon \/ ResolveAdaptive
FnSpec == FnInit /\ [][FnNext]_vars

\* the layer calls whose drawable reference names the platform namespace
PlatformRef(d) == StartsWith(trim(d), "@android:")
LayerOutputs == IF fnCall.fn = "resolveAdaptiveLayerResource" THEN Range(fnOutput) ELSE {}
Rgba(r, g, b, a) == [r |-> r, g |-> g, b |-> b, a |-> a]

ByPathCalls == {o \in Range(resolverOutput) : resolveCall.resource.path # ""}
\* resource.path.replace(/^\/+/, '')
LiteralPath == stripSlashes(resolveCall.resource.path)
HasExact(apk) ==
  \E i \in 1..Len(getApkEntries(apk).value) : getApkEntries(apk).value[i] = LiteralPath
\* the positions of the entries of apk whose file name is the basename of the path
SameFileName(apk) ==
  {i \in 1..Len(getApkEntries(apk).value) :
     EndsWith(getApkEntries(apk).value[i], "/" \o basename(LiteralPath))}

\* C23 as stated: the entry equal to the literal path is returned whenever
\* some APK contains it, and an entry that only shares the file name is
\* returned only when no APK contains the literal path.
C23_Original ==
  \A o \in ByPathCalls :
    LET apks == resolveCall.apks
    IN (\E i \in 1..Len(apks) : HasExact(apks[i])) => o.result.entryPath = LiteralPath

\* C23: the APKs are searched in list order, and in each APK the entry equal
\* to the literal path is taken if the APK has it, otherwise the first listed
\* entry with the same file name; the first APK that yields either decides.
C23_ExactThenBasenamePerApk ==
  \A o \in ByPathCalls :
    LET apks == resolveCall.apks
        hits == {i \in 1..Len(apks) : HasExact(apks[i]) \/ SameFileName(apks[i]) # {}}
    IN IF hits = {} THEN o.result = NoMatch
       ELSE LET apk == apks[Min(hits)]
            IN /\ o.result.apkPath = apk.localPath
               /\ o.result.entryPath =
                    IF HasExact(apk) THEN LiteralPath
                    ELSE getApkEntries(apk).value[Min(SameFileName(apk))]

\* base.apk has only a file of the same name in another directory, a split
\* APK has the literal path: the entry of base.apk is returned
C23_Witness ==
  /\ resolverOutput # <<>>
  /\ resolveCall.resource.path = "/res/mipmap-xxxhdpi/ic.png"
  /\ Len(resolveCall.apks) = 2
  /\ resolveCall.apks[1].entries = <<"res/mipmap-xxxhdpi/ic.xml", "res/mipmap-mdpi/ic.png">>
  /\ resolveCall.apks[2].entries = <<"res/mipmap-xxxhdpi/ic.png">>
  /\ resolverOutput[1].result.apkPath = "base.apk"
  /\ resolverOutput[1].result.entryPath = "res/mipmap-mdpi/ic.png"

\* the APKs of the call whose archive, as it is, holds an entry for the
\* reference searched for
ArchivesWithMatch(o) ==
  {i \in 1..Len(resolveCall.apks) :
     /\ resolveCall.apks[i].tar = "ok"
     /\ findResourceEntry(resolveCall.apks[i].entries, o.working,
                          resolveCall.preferredExtensions) # Null}

\* C24: resolve raises no error; it returns the 'no match' value when nothing
\* matches, and an APK whose archive listing fails, or whose tool is missing,
\* counts as an APK in which nothing matches, as an APK whose resource dump
\* fails counts as one whose table lists nothing.
C24_NeverRaises ==
  \A o \in Range(resolverOutput) :
    /\ o.result # Raised
    /\ (ArchivesWithMatch(o) = {} \/ o.working.android) <=> o.result = NoMatch
    /\ (\A i \in 1..Len(resolveCall.apks) : resolveCall.apks[i].aapt2 # "ok")
         => o.working = resolveCall.resource

\* the listing of base.apk failed and tar is missing for the split APK, both
\* of which hold the icon: no match, no error
C24_Witness ==
  /\ resolverOutput # <<>>
  /\ resolveCall.resource = ByTypeName("mipmap", "ic")
  /\ Len(resolveCall.apks) = 2
  /\ resolveCall.apks[1].tar = "fails" /\ resolveCall.apks[2].tar = "missing"
  /\ resolveCall.apks[1].entries = <<"res/mipmap-hdpi/ic.png">>
  /\ resolverOutput[1].result = NoMatch

LabelOutputs == IF fnCall.fn = "parseLabelFromDump" THEN Range(fnOutput) ELSE {}
\* a line application-label-<locale>:'...
IsLocalizedLabel(line) ==
  /\ StartsWith(line, "application-label-")
  /\ \E i \in Len("application-label-") + 1..Len(line) - 2 :
       /\ SubSeq(line, i + 1, i + 2) = ":'"
       /\ Positions(SubSeq(line, 1, i), ":") = {}
IsGenericLabel(line) == StartsWith(line, "application-label:'")
\* the first of the lines at one of the positions, Null if there is none
FirstLine(lines, positions) == IF positions = {} THEN Null ELSE lines[Min(positions)]
ValueOfLine(line) == IF quoted(line) = Null THEN Null ELSE unescapeQuotes(quoted(line))

\* C25 as stated: the label is the value of the first line
\* application-label-<locale> of any locale if there is one, otherwise of the
\* first line application-label; none when there is neither.
C25_Original ==
  \A o \in LabelOutputs :
    LET lines == trimmedLines(fnCall.args[1])
        localized == FirstLine(lines, {i \in 1..Len(lines) : IsLocalizedLabel(lines[i])})
        generic == FirstLine(lines, {i \in 1..Len(lines) : IsGenericLabel(lines[i])})
    IN IF localized # Null THEN o = ValueOfLine(localized)
       ELSE IF generic # Null THEN o = ValueOfLine(generic)
       ELSE o = Null

IsSpanishLabel(line) == StartsWith(line, "application-label-es:'")

\* C25: the label is the quoted value, with every \' turned into ', of the
\* first line application-label-es if there is one, otherwise of the first
\* line application-label; lines of other locales are not looked at, and the
\* result is none when there is neither line or the chosen line has no
\* closing quote.
C25_SpanishThenGeneric ==
  \A o \in LabelOutputs :
    LET lines == trimmedLines(fnCall.args[1])
        spanish == FirstLine(lines, {i \in 1..Len(lines) : IsSpanishLabel(lines[i])})
        generic == FirstLine(lines, {i \in 1..Len(lines) : IsGenericLabel(lines[i])})
    IN /\ spanish # Null => o = ValueOfLine(spanish)
       /\ spanish = Null /\ generic # Null => o = ValueOfLine(generic)
       /\ spanish = Null /\ generic = Null => o = Null
       /\ o # Null => Positions(o, "\\") = {}

\* the French line comes first and is passed over; the generic line that
\* follows gives the label, with its quotes unescaped
C25_Witness ==
  /\ fnOutput # <<>>
  /\ fnCall.fn = "parseLabelFromDump"
  /\ fnCall.args[1] = <<"application-label-fr:'Appli'", "application-label:'Bob\\'s \\'App\\''">>
  /\ fnOutput[1] = "Bob's 'App'"

SelectOutputs == IF fnCall.fn = "selectBestApplicationIcon" THEN Range(fnOutput) ELSE {}
\* a ranks at least as high as b: the any-density value above every number,
\* numbers by their value
RanksAtLeast(a, b) ==
  \/ a.density = 65535
  \/ b.density # 65535 /\ a.density >= b.density
IsRasterRef(value) ==
  \E ext \in {".png", ".webp", ".jpg", ".jpeg"} : EndsWith(toLowerCase(value), ext)

\* C26: restricted to raster candidates, and with a raster candidate present,
\* the chosen candidate is a raster one that ranks at least as high as every
\* raster candidate; otherwise it is a candidate that ranks at least as high as
\* every candidate; the density 65535 ranks above every other density.
C26_BestIcon ==
  \A o \in SelectOutputs :
    LET candidates == Range(o.icons)
        rasters == {c \in candidates : IsRasterRef(c.value)}
    IN IF candidates = {} THEN o.best = NoIconEntry
       ELSE IF fnCall.args[2] /\ rasters # {}
         THEN o.best \in rasters /\ \A c \in rasters : RanksAtLeast(o.best, c)
       ELSE o.best \in candidates /\ \A c \in candidates : RanksAtLeast(o.best, c)

\* restricted to rasters, the any-density XML icon and a 70000 png are passed
\* over for the any-density jpg
C26_Witness ==
  /\ fnOutput # <<>>
  /\ fnCall.fn = "selectBestApplicationIcon"
  /\ fnCall.args[2]
  /\ fnOutput[1].icons = <<IconEntry(65535, "res/mipmap-anydpi-v26/ic.xml"),
                           IconEntry(70000, "res/mipmap/big.png"),
                           IconEntry(65535, "res/drawable/ic.jpg")>>
  /\ fnOutput[1].best = IconEntry(65535, "res/drawable/ic.jpg")

AdaptiveOutputs == IF fnCall.fn = "resolveIconFromApks" THEN Range(fnOutput) ELSE {}
Background == fnCall.args[2]
Foreground == fnCall.args[3]
SharpLoaded == fnCall.args[4]
\* nothing was written for the package and it has no icon
NoIconFor(o, p) ==
  o.cache.iconFiles[p] = {} /\ o.cache.packageIconCache[p] = NoIcon

\* C27: when the foreground layer is absent or its materialization raised,
\* the adaptive resolution ends with an error, whatever the background layer
\* and whether or not sharp is there; no icon file was written and no entry
\* was added to the icon cache.
C27_ForegroundRequired ==
  \A o \in AdaptiveOutputs :
    Foreground \in {NoLayer, LayerThrew} =>
      o.threw /\ o.result = Null /\ NoIconFor(o, fnCall.args[1])

\* no foreground layer, a colour as background, sharp there and able to
\* compose: an error, and nothing written
C27_Witness ==
  /\ fnOutput # <<>>
  /\ fnCall.fn = "resolveIconFromApks"
  /\ Foreground = NoLayer /\ Background = Layer("color", "#ff000000", "color")
  /\ SharpLoaded /\ fnCall.args[5] = "ok"
  /\ fnOutput[1].threw /\ NoIconFor(fnOutput[1], fnCall.args[1])

\* the cache after the foreground layer alone was written as <pkg>.<ext>
OnlyFile(o, p, ext) ==
  /\ ~o.threw /\ o.result = ext
  /\ o.cache.iconFiles[p] = {ext} /\ o.cache.packageIconCache[p] = ext

\* C28 as stated: without sharp, a raster or vector foreground is copied into
\* the cache as it is and a colour foreground gives a swatch of that colour,
\* whatever the background layer is.
C28_ForegroundFallback ==
  \A o \in AdaptiveOutputs :
    ( /\ ~SharpLoaded /\ fnCall.args[6]
      /\ Background # LayerThrew /\ Foreground \notin {NoLayer, LayerThrew} ) =>
      CASE Foreground.type = "raster" -> OnlyFile(o, fnCall.args[1], Foreground.format)
        [] Foreground.type = "vector" -> OnlyFile(o, fnCall.args[1], "svg")
        [] Foreground.type = "color" -> OnlyFile(o, fnCall.args[1], "png")

\* C28 for what the code does: without sharp a raster or vector foreground is
\* copied as it is, whatever the background layer, and a colour foreground
\* ends in an error with nothing written.
C28_NoSwatchWithoutSharp ==
  \A o \in AdaptiveOutputs :
    ( /\ ~SharpLoaded /\ fnCall.args[6]
      /\ Background # LayerThrew /\ Foreground \notin {NoLayer, LayerThrew} ) =>
      CASE Foreground.type = "raster" -> OnlyFile(o, fnCall.args[1], Foreground.format)
        [] Foreground.type = "vector" -> OnlyFile(o, fnCall.args[1], "svg")
        [] Foreground.type = "color" -> o.threw /\ NoIconFor(o, fnCall.args[1])

\* without sharp, a raster foreground over a colour background was copied
\* as <pkg>.webp
C28_Witness ==
  /\ fnOutput # <<>>
  /\ fnCall.fn = "resolveIconFromApks"
  /\ ~SharpLoaded /\ fnCall.args[6]
  /\ Foreground = Layer("raster", "", "webp")
  /\ Background = Layer("color", "#ff000000", "color")
  /\ OnlyFile(fnOutput[1], fnCall.args[1], "webp")

\* the packages accepted into the queue of kind k by the step: what the step
\* took from the queue and what it left, less what the queue held before
AcceptedBy(k) ==
  LET all == PkgsOf(DequeuedSeq(k)') \o QueueOf(k)'
  IN Range(SubSeq(all, Len(QueueOf(k)) + 1, Len(all)))
\* the step is an IPC call that returned no listing: listUserPackages threw
\* (the steps of 'connect' return none either)
ListingFailed == ran'.by = "ipc" /\ listing' = <<>>
NothingEnqueued ==
  /\ labelQueue' = labelQueue /\ queuedLabelPackages' = queuedLabelPackages
  /\ iconQueue' = iconQueue /\ queuedIconPackages' = queuedIconPackages
  /\ appLabelCache' = appLabelCache /\ prefsLabels' = prefsLabels
  /\ packageIconCache' = packageIconCache /\ iconFiles' = iconFiles
  /\ dequeued' = {} /\ emitted' = <<>> /\ spawned' = {}
\* the rows of the listing returned by the step
RowsListed == IF listing' = <<>> THEN {} ELSE Range(listing'[1])

\* C29 as stated: a listing that fails enqueues nothing and leaves the queues
\* and the caches as they were; a listing that succeeds puts into the label
\* queue exactly the listed packages without a cached label, and into the
\* icon queue exactly the listed packages without a cached icon (those
\* already waiting in the queue stay there once).
C29_Original ==
  [][/\ ListingFailed => NothingEnqueued
     /\ listing' # <<>> =>
          /\ AcceptedBy("label") =
               {r.package : r \in {x \in RowsListed : ~x.hasLabel}} \ Range(labelQueue)
          /\ AcceptedBy("icon") =
               {r.package : r \in {x \in RowsListed : ~x.iconResolved}} \ Range(iconQueue)]_vars

\* C29: a listing that fails enqueues nothing and leaves the queues and the
\* caches as they were; a listing that succeeds puts into the label queue
\* exactly the listed packages without a cached label, and into the icon
\* queue exactly the listed packages that have a cached label and no cached
\* icon (those already waiting in the queue stay there once).
C29_ListingEnqueuesMisses ==
  [][/\ ListingFailed => NothingEnqueued
     /\ listing' # <<>> =>
          /\ AcceptedBy("label") =
               {r.package : r \in {x \in RowsListed : ~x.hasLabel}} \ Range(labelQueue)
          /\ AcceptedBy("icon") =
               {r.package : r \in {x \in RowsListed : x.hasLabel /\ ~x.iconResolved}}
                 \ Range(iconQueue)]_vars

\* a listing of two packages: one has its label and no icon and was accepted
\* into the icon queue, the other has neither and was accepted into the label
\* queue only
C29_Witness ==
  /\ listing # <<>> /\ Len(listing[1]) = 2
  /\ \E i, j \in 1..2 :
       /\ listing[1][i].hasLabel /\ ~listing[1][i].iconResolved
       /\ \E d \in dequeued : d.kind = "icon" /\ d.package = listing[1][i].package
       /\ ~listing[1][j].hasLabel /\ ~listing[1][j].iconResolved
       /\ \E d \in dequeued : d.kind = "label" /\ d.package = listing[1][j].package
       /\ listing[1][j].package \notin Range(iconQueue)
       /\ ~\E d \in dequeued : d.kind = "icon" /\ d.package = listing[1][j].package

\* C30 as stated: no package is at once running and queued for the same kind.
C30_Original ==
  \A k \in Kinds : RunningPkgs(k) \cap Range(QueueOf(k)) = {}

\* C30: a package whose task is running can be accepted into the queue of
\* that kind once more, by a request made while it runs, and never twice; a
\* second 'started' event for it is emitted only after the 'updated' event
\* that reports the failure of the running task.
C30_RequeuedWhileRunning ==
  /\ [](\A k \in Kinds, p \in Pkgs :
          /\ Len(SelectSeq(QueueOf(k), LAMBDA q : q = p)) <= 1
          /\ Len(SelectSeq(WorkersOf(k), LAMBDA w : w.pkg = p)) <= 1
          /\ (p \in RunningPkgs(k) /\ p \in Range(QueueOf(k))) =>
               reqHist[k][p] \in {"busy", "busyDup"})
  /\ [][\A k \in Kinds, p \in Pkgs :
          /\ StartedCount(k, p, emitted') <= 1
          /\ (StartedCount(k, p, emitted') = 1 /\ p \in openStarted[k]) =>
               \E i \in StartedIdx(k, p, emitted'), j \in UpdatedIdx(k, p, emitted') :
                 j < i /\ ~emitted'[j].success]_vars

\* a package was requested while its extraction ran; the extraction failed
\* and the step that reported the failure started the package again
C30_Witness ==
  \E d \in dequeued, x \in settled :
    /\ d.hist \in {"busy", "busyDup"} /\ d.how = "fresh"
    /\ x.kind = d.kind /\ x.package = d.package /\ Falsy(x.res)
    /\ StartedCount(d.kind, d.package, emitted) = 1

(* ------------------------------------------------------------------ C31 *)
\* the `pm path` query of a task of kind k for package p, started by the last step
PathQuery(k, p) == [kind |-> k, package |-> p, cmd |-> "pm path"]
\* the tasks started by the last step for a package whose earlier task failed
\* because `pm path` gave no path: the path cache holds [] for it, and only a
\* task of the package writes that entry
StartedAfterFailedPaths ==
  {d \in dequeued : /\ d.how = "fresh"
                    /\ packageApkPathCache[d.package] = "empty"
                    /\ (d.kind = "label" \/ aapt2Available)}

\* C31: after a task for a package has failed, a later request for it starts a
\* task that queries the device for the package's APK paths again, so that its
\* outcome does not depend on what the failed attempt left behind.
C31_FreshReentry ==
  \A d \in StartedAfterFailedPaths : PathQuery(d.kind, d.package) \in spawned

\* what the code does instead: the task started after a failed `pm path` starts
\* no process at all for the package; it reuses the remembered empty list, which
\* stays in the path cache
C31_FailedPathsRemembered ==
  /\ [](\A d \in StartedAfterFailedPaths : ~SpawnedFor(d.kind, d.package))
  /\ [][\A p \in Pkgs : packageApkPathCache[p] # "unset" =>
                          packageApkPathCache'[p] = packageApkPathCache[p]]_vars

\* C31 witness: a task has just been started for a package whose path cache
\* holds the empty list of a failed query, and no process was started for it.
C31_Witness ==
  \E d \in StartedAfterFailedPaths :
    /\ d.hist \in {"clean", "cleanDup"}
    /\ ~SpawnedFor(d.kind, d.package)

(* ------------------------------------------------------------------ C32 *)
\* the packages whose label extraction ended with a label in the last step
LabelStored == {x.package : x \in {y \in settled : y.kind = "label" /\ ~Falsy(y.res)}}
\* in the events of one step, every e of is comes before every f of js
AllBefore(is, js) == \A i \in is, j \in js : i < j

\* C32: for a package whose label is freshly extracted, the label 'updated'
\* event is emitted before the icon 'started' event of that package.
C32_Original ==
  \A p \in LabelStored :
    AllBefore(UpdatedIdx("label", p, emitted), StartedIdx("icon", p, emitted))

\* C32 as the code has it: an icon 'started' event is emitted only for a package
\* whose label is stored; the step that stores a freshly extracted label emits
\* the label 'updated' event, and when the icon worker is idle and the package
\* has no cached icon it emits the icon 'started' event first, in the same
\* step; with a busy icon worker that step emits no icon 'started' for it.
C32_LabelStoredFirst ==
  /\ [](\A p \in Pkgs : StartedIdx("icon", p, emitted) # {} => ~Falsy(CurLabel(p)))
  /\ [][\A p \in LabelStored' :
          /\ UpdatedIdx("label", p, emitted') # {}
          /\ IF ~isProcessingIconQueue /\ CurIcon(p) = NoIcon
               THEN /\ StartedIdx("icon", p, emitted') # {}
                    /\ AllBefore(StartedIdx("icon", p, emitted'),
                                 UpdatedIdx("label", p, emitted'))
               ELSE StartedIdx("icon", p, emitted') = {}]_vars

\* C32 witness: a label has just been stored with the icon worker idle: the
\* icon 'started' event of the package was sent before its label 'updated'.
C32_Witness ==
  \E p \in LabelStored :
    /\ StartedIdx("icon", p, emitted) # {}
    /\ UpdatedIdx("label", p, emitted) # {}
    /\ AllBefore(StartedIdx("icon", p, emitted), UpdatedIdx("label", p, emitted))

(* ------------------------------------------- materializeResolvedResource *)
\* An XML file as the regular expressions of the code see it: its elements in
\* document order, each with its tag name, its attributes in order (name, the
\* quote around the value, value) and the text between its tags
Attr(name, quote, value) == [name |-> name, quote |-> quote, value |-> value]
Element(tag, attrs, text) == [tag |-> tag, attrs |-> attrs, text |-> text]

\* the first match of /name="([^"]+)"/i, else of /name='([^']+)'/i, for the
\* names given; "" when neither matches
firstAttr(attrs, names) ==
  LET hit(q) == {i \in 1..Len(attrs) : /\ attrs[i].quote = q
                                       /\ toLowerCase(attrs[i].name) \in names
                                       /\ attrs[i].value # ""}
  IN IF hit("\"") # {} THEN attrs[Min(hit("\""))].value
     ELSE IF hit("'") # {} THEN attrs[Min(hit("'"))].value
     ELSE ""

\* extractDrawableFromXml: the opening tag of the first element whose name
\* begins with tagName (/<tagName[^>]*?>/i), and in it the first drawable, src
\* or color attribute; "" for null
extractDrawableFromXml(xmlContent, tagName) ==
  LET at == {i \in 1..Len(xmlContent) : StartsWith(toLowerCase(xmlContent[i].tag), tagName)}
  IN IF xmlContent = <<>> \/ tagName = "" \/ at = {} THEN ""
     ELSE firstAttr(xmlContent[Min(at)].attrs,
                    {"android:drawable", "android:src", "android:color"})

\* /<vector[\s>]/i.test(xmlContent)
isVectorXml(xmlContent) ==
  \E i \in 1..Len(xmlContent) : toLowerCase(xmlContent[i].tag) = "vector"

RECURSIVE allAttrs(_)
allAttrs(xmlContent) ==
  IF xmlContent = <<>> THEN <<>> ELSE Head(xmlContent).attrs \o allAttrs(Tail(xmlContent))

\* colorAttrMatch[1]: the first android:color or android:value attribute of
\* the whole file, double-quoted ones first
colorAttrOf(xmlContent) == firstAttr(allAttrs(xmlContent), {"android:color", "android:value"})
\* colorNodeMatch[1]: the text of the first <color> element that has text
colorNodeOf(xmlContent) ==
  LET at == {i \in 1..Len(xmlContent) : /\ StartsWith(toLowerCase(xmlContent[i].tag), "color")
                                        /\ xmlContent[i].text # ""}
  IN IF at = {} THEN "" ELSE xmlContent[Min(at)].text

nestedTags == <<"bitmap", "item", "inset">>
RasterFormats == {"png", "webp", "jpg", "jpeg"}

\* the entry the reference of a tag resolves to, NoMatch when the tag has no
\* reference or its reference resolves to nothing (lines 853-858)
nestedOfTag(xmlContent, tag, apks) ==
  LET nestedRef == extractDrawableFromXml(xmlContent, tag)
      nestedResource == parseResourceValue(nestedRef)
  IN IF nestedRef = "" \/ nestedResource = NoResource THEN NoMatch
     ELSE resolveResourceReference(nestedResource, apks, LayerExtensions)

\* what one activation does after the file is read: "return" a layer (NoLayer
\* for null) or "recurse" into the entry a nested tag resolves to
Return(layer) == [kind |-> "return", layer |-> layer, nested |-> NoMatch, tag |-> ""]
Throw == [kind |-> "throw", layer |-> NoLayer, nested |-> NoMatch, tag |-> ""]
Recurse(nested, tag) == [kind |-> "recurse", layer |-> NoLayer, nested |-> nested, tag |-> tag]

\* the entry each of the tags resolves to, in the order of the tags
nestedOfTags(xmlContent, tags, apks) ==
  [i \in 1..Len(tags) |-> nestedOfTag(xmlContent, tags[i], apks)]

\* lines 851-876 for the tags in the order given: the first tag that resolves
\* is followed, else the inline colours are tried
afterNested(xmlContent, tags, nested) ==
  LET resolving == {i \in 1..Len(tags) : nested[i] # NoMatch}
  IN IF resolving # {}
       THEN Recurse(nested[Min(resolving)], tags[Min(resolving)])
     ELSE IF isColorValue(colorAttrOf(xmlContent))
       THEN Return(Layer("color", normalizeHexColor(colorAttrOf(xmlContent)), "color"))
     ELSE IF isColorValue(colorNodeOf(xmlContent))
       THEN Return(Layer("color", normalizeHexColor(colorNodeOf(xmlContent)), "color"))
     ELSE Return(NoLayer)

\* lines 851-876 with the tags tried in the order item, bitmap, inset
fromXml_ItemFirst(xmlContent, apks) ==
  afterNested(xmlContent, <<"item", "bitmap", "inset">>,
              nestedOfTags(xmlContent, <<"item", "bitmap", "inset">>, apks))

\* lines 851-876: the nested tags, then the inline colours
fromXml(xmlContent, apks) ==
  afterNested(xmlContent, nestedTags, nestedOfTags(xmlContent, nestedTags, apks))

\* the calls followed: one APK and the XML files in it
MaxDepth == 5
DQ == "\""
Plain(tag) == Element(tag, <<>>, "")
Ref(tag, name, quote, value) == Element(tag, <<Attr(name, quote, value)>>, "")
\* the XML files of the modelled APK
Docs ==
  {<<>>,
   <<Plain("layer-list"), Ref("item", "android:drawable", DQ, "@drawable/a")>>,
   <<Plain("selector"),
     Element("item", <<Attr("android:state_pressed", DQ, "true"),
                       Attr("android:drawable", DQ, "@drawable/b")>>, "")>>,
   <<Element("inset", <<Attr("android:drawable", "'", "@drawable/c"),
                        Attr("android:inset", DQ, "2dp")>>, "")>>,
   <<Ref("bitmap", "android:src", DQ, "@mipmap/ic")>>,
   <<Plain("layer-list"), Ref("item", "android:drawable", DQ, "@drawable/b"),
     Ref("bitmap", "android:src", DQ, "@mipmap/ic")>>,
   <<Plain("layer-list"), Ref("item", "android:drawable", DQ, "@drawable/missing"),
     Ref("inset", "android:drawable", DQ, "@drawable/b")>>,
   <<Plain("layer-list"), Ref("item", "android:drawable", DQ, "@drawable/missing"),
     Ref("item", "android:drawable", DQ, "@drawable/b")>>,
   <<Plain("shape"), Ref("solid", "android:color", DQ, "#fff")>>,
   <<Element("color", <<>>, " #80FF0000 ")>>,
   <<Plain("selector"), Ref("item", "android:color", DQ, "#12345"),
     Element("color", <<>>, "#123456")>>,
   <<Ref("inset", "android:drawable", DQ, "@android:color/white")>>,
   <<Plain("vector"), Ref("path", "android:fillColor", DQ, "#fff")>>,
   <<Plain("layer-list"), Ref("item", "android:drawable", DQ, "@drawable/b"),
     Plain("vector")>>}
FlatDocs ==
  {<<>>,
   <<Ref("item", "android:drawable", DQ, "@drawable/a")>>,
   <<Ref("bitmap", "android:src", DQ, "@mipmap/ic")>>,
   <<Plain("vector")>>}
MatEntries ==
  <<"res/drawable/a.xml", "res/drawable/b.xml", "res/drawable/c.xml.flat",
    "res/mipmap-hdpi/ic.png">>
MatApks ==
  <<[localPath |-> "base.apk", entries |-> MatEntries, dump |-> <<>>,
     tar |-> "ok", aapt2 |-> "ok"]>>
MatCall(a, b, c) ==
  [apks |-> MatApks,
   contents |-> [e \in {MatEntries[1], MatEntries[2], MatEntries[3]} |->
                   IF e = MatEntries[1] THEN a ELSE IF e = MatEntries[2] THEN b ELSE c]]
MatCalls == {MatCall(a, b, c) : a \in Docs, b \in Docs, c \in FlatDocs}
\* fromXml for each XML file of the modelled APK, computed once per file
fromXmlOf[xmlContent \in Docs \cup FlatDocs, apks \in {MatApks}] == fromXml(xmlContent, apks)

\* how the external operations of one activation end: all succeed, tar cannot
\* extract (or is missing), aapt2 is missing, aapt2 convert fails, the file
\* cannot be read, the vector conversion fails
ExtOutcomes == {"ok", "tar fails", "no aapt2", "convert fails", "unreadable", "svg fails"}

\* one activation of materializeResolvedResource with a depth limit
materializeResolvedResource_DepthGuard(resolved, apks, contents, ext, depth) ==
  IF depth >= 1 THEN Return(NoLayer)
  ELSE IF resolved = NoMatch \/ resolved.format = "" THEN Return(NoLayer)
  ELSE IF ext = "tar fails" THEN Throw
  ELSE IF resolved.format \in RasterFormats THEN Return(Layer("raster", "", resolved.format))
  ELSE IF ext = "unreadable" THEN Return(NoLayer)
  ELSE fromXmlOf[contents[resolved.entryPath], apks]

\* one activation of materializeResolvedResource (lines 813-877); depth is the
\* number of tags appended to options.suffix, which no test reads
materializeResolvedResource(resolved, apks, contents, ext, depth) ==
  IF resolved = NoMatch \/ resolved.format = "" THEN Return(NoLayer)
  ELSE IF ext = "tar fails" THEN Throw
  ELSE IF resolved.format \in RasterFormats THEN Return(Layer("raster", "", resolved.format))
  ELSE IF resolved.format = "xml.flat" /\ ext = "no aapt2" THEN Return(NoLayer)
  ELSE IF resolved.format = "xml.flat" /\ ext = "convert fails" THEN Throw
  ELSE IF ext = "unreadable" THEN Return(NoLayer)
  ELSE IF isVectorXml(contents[resolved.entryPath])
    THEN IF ext = "svg fails" THEN Throw ELSE Return(Layer("vector", "", "svg"))
  ELSE fromXmlOf[contents[resolved.entryPath], apks]

(* ----------------------------- materializeResolvedResource on XML files *)
Resolved(entry) ==
  [apkPath |-> "base.apk", entryPath |-> entry, format |-> getFormatFromEntry(entry)]
Frame(resolved) == [resolved |-> resolved, depth |-> 0, tag |-> "", ext |-> ""]

MatInit ==
  /\ MainInit
  /\ prefsLabels = [p \in Pkgs |-> ""] /\ aapt2Available
  /\ resolveCall = NoCall /\ resolverOutput = <<>>
  /\ fnCall = NoFnCall /\ fnOutput = <<>>
  /\ ScrcpyIdle /\ TrackerIdle
  /\ matCall \in MatCalls
  /\ \/ matFrame = Frame(Resolved(MatEntries[1]))
     \/ /\ matCall = MatCall(<<>>, <<>>, <<>>)
        /\ matFrame \in {Frame(NoMatch), Frame(Resolved(MatEntries[3])),
                         Frame(Resolved(MatEntries[4]))}
  /\ matOutput = <<>> /\ matTurn = 0

\* one activation of materializeResolvedResource runs to its return, its
\* throw, or its call of the next activation, whose result it returns
Materialize(ext) ==
  /\ matCall # NoMatCall /\ matOutput = <<>>
  /\ LET r == materializeResolvedResource(matFrame.resolved, matCall.apks, matCall.contents,
                                          ext, matFrame.depth)
     IN IF r.kind = "recurse"
          THEN /\ matFrame' = [resolved |-> r.nested,
                               depth |-> Min({matFrame.depth + 1, MaxDepth}),
                               tag |-> r.tag, ext |-> ext]
               /\ matOutput' = <<>>
          ELSE /\ matFrame' = [matFrame EXCEPT !.ext = ext]
               /\ matOutput' = <<[threw |-> r.kind = "throw", layer |-> r.layer]>>
  /\ matTurn' = 1 - matTurn
  /\ UNCHANGED <<mainVars, resolverVars, fnVars, matCall, scrcpyVars, trackerVars>>

MatNext == \E ext \in ExtOutcomes : Materialize(ext)
MatSpec == MatInit /\ [][MatNext]_vars
\* every external operation of an activation ends, and the activation goes on:
\* an activation can run exactly while the call has not ended
MaterializeRuns == matCall # NoMatCall /\ matOutput = <<>> /\ matTurn' = 1 - matTurn
MatFairSpec == MatSpec /\ WF_matTurn(MaterializeRuns)

(* ------------------------------------------------------------------ C33 *)
\* the chain of nested references that starts at a resolved entry ends within
\* n activations when every external operation succeeds
RECURSIVE chainEnds(_, _)
chainEnds(resolved, n) ==
  IF n = 0 THEN FALSE
  ELSE LET r == materializeResolvedResource(resolved, matCall.apks, matCall.contents, "ok", 0)
       IN r.kind # "recurse" \/ chainEnds(r.nested, n - 1)
\* a chain over Len(MatEntries) entries that is longer than that repeats an entry
Acyclic == matCall # NoMatCall /\ chainEnds(matFrame.resolved, Len(MatEntries) + 1)
Cyclic == matCall # NoMatCall /\ ~chainEnds(matFrame.resolved, Len(MatEntries) + 1)

\* C33: materialization ends for every resolved entry whose chain of bitmap /
\* item / inset references is acyclic; for a chain that comes back to one of
\* its entries there is no depth guard: an activation whose external operations
\* succeed always starts the next one, so the call ends only if an extraction or
\* a read fails, and otherwise never.
C33_EndsIffAcyclic ==
  /\ Acyclic ~> matOutput # <<>>
  /\ [](Cyclic => (matOutput = <<>> \/ matFrame.ext \notin {"ok", "svg fails"}))
  /\ [][Cyclic /\ matFrame'.ext = "ok" => matOutput' = <<>>]_vars

\* C33 witness: on a self-referential chain the recursion has gone as deep as
\* the model counts and is still running.
C33_Witness ==
  Cyclic /\ matFrame.depth = MaxDepth /\ matOutput = <<>> /\ matFrame.ext = "ok"

(* ------------------------------------------------------------------ C34 *)
\* the XML file of the activation that runs now, <<>> when its entry is none
XmlOfFrame ==
  IF matCall # NoMatCall /\ matFrame.resolved.entryPath \in DOMAIN matCall.contents
    THEN matCall.contents[matFrame.resolved.entryPath] ELSE <<>>
NonVectorXmlFrame ==
  /\ matCall # NoMatCall /\ matOutput = <<>>
  /\ matFrame.resolved.entryPath \in DOMAIN matCall.contents
  /\ ~isVectorXml(XmlOfFrame)
\* the entry the reference of a tag of that file resolves to
EntryOfTag(tag) == nestedOfTag(XmlOfFrame, tag, matCall.apks)
\* the tags of that file whose reference resolves, and the first of them in
\* the order bitmap, item, inset
ResolvingTags == {tag \in {"bitmap", "item", "inset"} : EntryOfTag(tag) # NoMatch}
FirstResolvingTag ==
  IF "bitmap" \in ResolvingTags THEN "bitmap"
  ELSE IF "item" \in ResolvingTags THEN "item" ELSE "inset"
\* the inline colours of that file which are valid hex colours, normalized
InlineColors ==
  {normalizeHexColor(c) : c \in {v \in {colorAttrOf(XmlOfFrame), colorNodeOf(XmlOfFrame)} :
                                   isColorValue(v)}}

\* C34: for a non-vector XML entry that could be read, the activation goes on
\* with the entry that the first of the tags bitmap, item, inset with a
\* resolving reference resolves to, and returns what materializing that entry
\* returns; when no tag resolves it returns a colour layer made of an inline
\* android:color / android:value attribute or <color> text that is a valid hex
\* colour, and null when there is none.
C34_NestedThenColor ==
  [][NonVectorXmlFrame /\ matFrame'.ext = "ok" =>
       IF ResolvingTags # {}
         THEN /\ matOutput' = <<>>
              /\ matFrame'.resolved = EntryOfTag(FirstResolvingTag)
              /\ matFrame'.tag = FirstResolvingTag
         ELSE /\ matOutput' # <<>> /\ ~matOutput'[1].threw
              /\ IF InlineColors = {} THEN matOutput'[1].layer = NoLayer
                 ELSE /\ matOutput'[1].layer.type = "color"
                      /\ matOutput'[1].layer.color \in InlineColors]_vars

\* C34 witness: the file of the first activation has an <item> whose reference
\* resolves to nothing and an <inset> whose reference resolves; the second
\* activation runs on the entry of the <inset>.
C34_Witness ==
  /\ matCall # NoMatCall /\ matFrame.depth = 1 /\ matFrame.tag = "inset"
  /\ extractDrawableFromXml(matCall.contents[MatEntries[1]], "item") # ""
  /\ nestedOfTag(matCall.contents[MatEntries[1]], "item", matCall.apks) = NoMatch
  /\ matFrame.resolved.entryPath = MatEntries[2]

(* ------------------------------------------------------------------ C35 *)
ProcessingFlag(k) == IF k = "label" THEN isProcessingLabelQueue ELSE isProcessingIconQueue
DequeuedNow(k, p) == \E d \in dequeued : d.kind = k /\ d.package = p

C36_CachesMonotone ==
  [][\A p \in Pkgs :
       /\ ~Falsy(CurLabel(p)) => CurLabel(p)' = CurLabel(p)
       /\ packageIconCache[p] # NoIcon =>
            /\ packageIconCache'[p] = packageIconCache[p]
            /\ packageIconCache[p] \in iconFiles'[p]
            /\ \A d \in dequeued' :
                 d.kind = "icon" /\ d.package = p => d.how # "fresh"]_vars

\* C36, what the code keeps: a cached label never changes; a cached icon is
\* never removed and its package is never extracted again; the cached path
\* changes only while the extraction that created the file is still between a
\* failed composition and its fallback.
C36_NeverEmptiedNorExtractedAgain ==
  [][\A p \in Pkgs :
       /\ ~Falsy(CurLabel(p)) => CurLabel(p)' = CurLabel(p)
       /\ CurIcon(p) # NoIcon =>
            /\ CurIcon(p)' # NoIcon
            /\ CurIcon(p)' \in iconFiles'[p]
            /\ \A d \in dequeued' :
                 d.kind = "icon" /\ d.package = p => d.how # "fresh"
            /\ CurIcon(p)' # CurIcon(p) => Composing(p)]_vars

\* C36 witness: a listing has cached the <pkg>.png of a failed composition
\* while the extraction that wrote it goes on to its fallback.
C36_Witness ==
  \E p \in Pkgs :
    /\ Composing(p)
    /\ packageIconCache[p] = "png"
    /\ \E i \in 1..Len(listing) : \E j \in 1..Len(listing[i]) :
         listing[i][j].package = p /\ listing[i][j].iconResolved

(* ------------------------------------------------------------------ C37 *)
\* an icon task of p is waiting in the queue or in the worker's hands
IconTaskFor(p) == p \in Range(iconQueue) \/ p \in RunningPkgs("icon")

QueryInFlight(k, p) ==
  \E i \in 1..Len(WorkersOf(k)) : WorkersOf(k)[i].pkg = p /\ WorkersOf(k)[i].pc = "paths"
QueriesInFlight(p) == {k \in Kinds : QueryInFlight(k, p)}

\* C38: the path list of a package is asked from the device at most once: a
\* query is started only while the path cache has no entry for the package and
\* no query of it is running, the query's answer, empty or not, becomes the
\* entry, and the entry then serves every task of either kind unchanged, also
\* across a change of the current device.
C38_PathsOncePerPackage ==
  /\ [](\A p \in Pkgs :
          /\ Cardinality(QueriesInFlight(p)) <= 1
          /\ QueriesInFlight(p) # {} => packageApkPathCache[p] = "unset")
  /\ [][\A p \in Pkgs :
          /\ packageApkPathCache[p] # "unset" \/ QueriesInFlight(p) # {} =>
               \A k \in Kinds : PathQuery(k, p) \notin spawned'
          /\ packageApkPathCache[p] # "unset" =>
               packageApkPathCache'[p] = packageApkPathCache[p]
          /\ \A k \in Kinds :
               QueryInFlight(k, p) /\ ~QueryInFlight(k, p)' =>
                 packageApkPathCache'[p] # "unset"
          /\ currentDevice' # currentDevice =>
               packageApkPathCache'[p] = packageApkPathCache[p]]_vars

\* C38 witness: an icon task has just been started for a package whose paths
\* the label task had obtained: it goes on to the pull without a query.
C38_Witness ==
  \E d \in dequeued :
    /\ d.kind = "icon" /\ d.how = "fresh"
    /\ d.package \in LabelStored
    /\ packageApkPathCache[d.package] \in {"base", "split"}
    /\ PathQuery("icon", d.package) \notin spawned
    /\ SpawnedFor("icon", d.package)

(* ------------------------------------------- the scrcpy download (preload.js) *)
\* versions are compared as numbers; a marker folder is named by its version
MaxVersion == 2
Versions == 1..MaxVersion
DOWNLOAD_CONTEXT_INITIAL == "initial"
DOWNLOAD_CONTEXT_UPDATE == "update"
\* where a call waits once it has set the marker, up to its finally block
InstallPcs == {"markers", "rmArchive", "rmMarker", "downloading", "extracting", "installing"}

ScrcpyCur ==
  [ongoingScrcpyDownload |-> ongoingScrcpyDownload,
   installedScrcpyInfo |-> installedScrcpyInfo,
   latestReleaseCache |-> latestReleaseCache,
   calls |-> scrcpyCalls, disk |-> scrcpyDisk, out |-> NoScrcpyOut]

ScrcpyCommit(s) ==
  /\ ongoingScrcpyDownload' = s.ongoingScrcpyDownload
  /\ installedScrcpyInfo' = s.installedScrcpyInfo
  /\ latestReleaseCache' = s.latestReleaseCache
  /\ scrcpyCalls' = s.calls
  /\ scrcpyDisk' = s.disk
  /\ scrcpyOut' = s.out
  /\ UNCHANGED <<mainVars, resolverVars, fnVars, matVars, scrcpyRemote, trackerVars>>

\* the step of caller c starts from the state with c named in the output
By(c) == [ScrcpyCur EXCEPT !.out.by = c]

emitScrcpyEvent(s, type) == [s EXCEPT !.out.events = Append(@, type)]

\* removePathIfExists(archivePath): fsp.rm is issued, its errors are ignored
removeArchive(s) ==
  [s EXCEPT !.disk.archive = FALSE, !.out.ops = @ \cup {"rm archive"}]
\* removePathIfExists(path.join(base, expectedMarker))
removeMarker(s, v) ==
  [s EXCEPT !.disk.markers = @ \ {v}, !.out.ops = @ \cup {"rm marker"}]

\* the call of c ends: the lifecycle has run, a handler can be invoked again
endCall(s, c, started, reason) ==
  [s EXCEPT !.calls[c] = ScrcpyCall(IF c = "lifecycle" THEN "done" ELSE "idle"),
            !.out.result = [started |-> started, reason |-> reason]]

\* what the caller does with an error of downloadAndInstallScrcpy or of
\* fetchLatestRelease: the lifecycle logs it (lines 689-691), the handler
\* answers 'busy' or, for an error not yet reported, sends 'update-error'
\* (1463-1471)
callerCatches(s, c, code, handled) ==
  IF c = "lifecycle" \/ code = "busy" \/ handled
    THEN endCall(s, c, FALSE, code)
    ELSE endCall(emitScrcpyEvent(s, "update-error"), c, FALSE, code)

\* downloadAndInstallScrcpy whose catch path leaves without the finally block
leaveTry_MarkerKeptOnError(s, c, context, code) ==
  LET s1 == IF code = "" THEN s
            ELSE emitScrcpyEvent(s, IF context = DOWNLOAD_CONTEXT_UPDATE
                                      THEN "update-error" ELSE "initial-download-error")
  IN IF code = ""
       THEN removeArchive([s1 EXCEPT !.ongoingScrcpyDownload = Null,
                                     !.calls[c].pc = "cleanup", !.calls[c].err = code])
       ELSE [s1 EXCEPT !.calls[c].pc = "cleanup", !.calls[c].err = code]

\* downloadAndInstallScrcpy, lines 654-665: the catch block reports the error,
\* the finally block clears the marker and starts the removal of the archive
leaveTry(s, c, context, code) ==
  LET s1 == IF code = "" THEN s
            ELSE emitScrcpyEvent(s, IF context = DOWNLOAD_CONTEXT_UPDATE
                                      THEN "update-error" ELSE "initial-download-error")
  IN removeArchive([s1 EXCEPT !.ongoingScrcpyDownload = Null,
                              !.calls[c].pc = "cleanup", !.calls[c].err = code])

\* downloadAndInstallScrcpy, lines 603-627: up to its first await.  A release
\* returned by fetchLatestRelease always has an asset with a url (396-400)
downloadAndInstallScrcpy(s, c, context) ==
  IF s.ongoingScrcpyDownload # Null
    THEN callerCatches(s, c, "busy", FALSE)
    ELSE emitScrcpyEvent([s EXCEPT !.ongoingScrcpyDownload = context,
                                   !.calls[c].pc = "markers"],
                         IF context = DOWNLOAD_CONTEXT_UPDATE
                           THEN "update-started" ELSE "initial-download-started")

ContextOf(c) == IF c = "lifecycle" THEN DOWNLOAD_CONTEXT_INITIAL ELSE DOWNLOAD_CONTEXT_UPDATE

\* getInstalledMarkerInfo, lines 236-250, once listMarkerDirectories has answered
installedFromMarkers(markers) == IF markers = {} THEN 0 ELSE Max(markers)

\* 'scrcpy-start-update', lines 1456-1462, once release and installed are known
handlerAfterInstalled(s, c, release, installed) ==
  IF installed # 0 /\ installed >= release
    THEN endCall(s, c, FALSE, "up-to-date")
    ELSE downloadAndInstallScrcpy([s EXCEPT !.calls[c].release = release,
                                            !.calls[c].installed = installed],
                                  c, DOWNLOAD_CONTEXT_UPDATE)

\* 'scrcpy-start-update', line 1457: getInstalledMarkerInfo() answers from
\* installedScrcpyInfo without reading the directory when it is set
handlerAfterRelease(s, c, release) ==
  IF s.installedScrcpyInfo # 0
    THEN handlerAfterInstalled(s, c, release, s.installedScrcpyInfo)
    ELSE [s EXCEPT !.calls[c].pc = "installed", !.calls[c].release = release]

\* initializeScrcpyLifecycle, lines 685-704, once the release is known
lifecycleAfterRelease(s, c, release) ==
  LET call == s.calls[c]
  IN IF ~call.hasAdb \/ call.installed = 0
       THEN downloadAndInstallScrcpy([s EXCEPT !.calls[c].release = release],
                                     c, DOWNLOAD_CONTEXT_INITIAL)
       ELSE IF call.installed < release
         THEN endCall(emitScrcpyEvent(s, "update-available"), c, FALSE, "")
         ELSE endCall(s, c, FALSE, "")

\* did-finish-load: initializeScrcpyLifecycle up to its first await
LifecycleStart ==
  /\ scrcpyCalls["lifecycle"].pc = "start"
  /\ ScrcpyCommit([By("lifecycle") EXCEPT !.calls["lifecycle"].pc = "installed",
                                         !.calls["lifecycle"].hasAdb = scrcpyDisk.adb])

\* ipcMain.handle('scrcpy-start-update') up to its first await
StartUpdate(c) ==
  /\ c # "lifecycle" /\ scrcpyCalls[c].pc = "idle"
  /\ ScrcpyCommit(IF ongoingScrcpyDownload # Null
                    THEN endCall(By(c), c, FALSE, "busy")
                    ELSE IF latestReleaseCache # 0
                      THEN handlerAfterRelease(By(c), c, latestReleaseCache)
                      ELSE [By(c) EXCEPT !.calls[c].pc = "release"])

\* the readdir of getInstalledMarkerInfo has answered
InstalledRead(c) ==
  /\ scrcpyCalls[c].pc = "installed"
  /\ LET installed == installedFromMarkers(scrcpyDisk.markers)
         s == [By(c) EXCEPT !.installedScrcpyInfo = installed]
     IN ScrcpyCommit(
          IF c = "lifecycle"
            THEN LET s1 == [s EXCEPT !.calls[c].installed = installed]
                 IN IF latestReleaseCache # 0
                      THEN lifecycleAfterRelease(s1, c, latestReleaseCache)
                      ELSE [s1 EXCEPT !.calls[c].pc = "release"]
            ELSE handlerAfterInstalled(s, c, scrcpyCalls[c].release, installed))

\* fetchLatestRelease has answered or failed
ReleaseFetched(c, ok) ==
  /\ scrcpyCalls[c].pc = "release"
  /\ ok \in BOOLEAN
  /\ ScrcpyCommit(
       IF ok
         THEN LET s == [By(c) EXCEPT !.latestReleaseCache = scrcpyRemote]
              IN IF c = "lifecycle" THEN lifecycleAfterRelease(s, c, scrcpyRemote)
                 ELSE handlerAfterRelease(s, c, scrcpyRemote)
         ELSE IF c = "lifecycle"
           THEN endCall(emitScrcpyEvent(By(c),
                          IF ~scrcpyCalls[c].hasAdb \/ scrcpyCalls[c].installed = 0
                            THEN "initial-download-error" ELSE "update-check-error"),
                        c, FALSE, "network")
           ELSE callerCatches(By(c), c, "network", FALSE))

\* downloadAndInstallScrcpy, lines 629-631: the markers are listed, the old
\* archive is removed, then the folder of the expected marker
MarkersListed(c) ==
  /\ scrcpyCalls[c].pc = "markers"
  /\ ScrcpyCommit(removeArchive([By(c) EXCEPT !.calls[c].pc = "rmArchive"]))

ArchiveRemoved(c) ==
  /\ scrcpyCalls[c].pc = "rmArchive"
  /\ ScrcpyCommit(removeMarker([By(c) EXCEPT !.calls[c].pc = "rmMarker"],
                               scrcpyCalls[c].release))

MarkerRemoved(c) ==
  /\ scrcpyCalls[c].pc = "rmMarker"
  /\ ScrcpyCommit(emitScrcpyEvent([By(c) EXCEPT !.calls[c].pc = "downloading"],
                                  "download-stage"))

\* downloadFile ended: the archive is complete, or the download failed and
\* left a part of it or nothing
DownloadDone(c, ok, partial) ==
  /\ scrcpyCalls[c].pc = "downloading"
  /\ ok \in BOOLEAN /\ partial \in BOOLEAN /\ (ok => ~partial)
  /\ LET s == [By(c) EXCEPT !.disk.archive = ok \/ partial,
                           !.out.ops = IF ok \/ partial THEN {"write archive"} ELSE {}]
     IN ScrcpyCommit(IF ok
                       THEN emitScrcpyEvent([s EXCEPT !.calls[c].pc = "extracting"],
                                            "download-stage")
                       ELSE leaveTry(s, c, ContextOf(c), "download"))

\* extractArchive ended
ExtractDone(c, ok) ==
  /\ scrcpyCalls[c].pc = "extracting"
  /\ ok \in BOOLEAN
  /\ ScrcpyCommit(
       IF ok
         THEN emitScrcpyEvent([By(c) EXCEPT !.calls[c].pc = "installing",
                                           !.disk.markers = @ \cup {scrcpyCalls[c].release},
                                           !.out.ops = {"write marker"}],
                              "download-stage")
         ELSE leaveTry(By(c), c, ContextOf(c), "extract"))

\* finalizeScrcpyInstallation ended (lines 559-601, taken as one step): the
\* files are moved into the application directory and the other marker
\* folders removed, or it threw
InstallDone(c, ok) ==
  /\ scrcpyCalls[c].pc = "installing"
  /\ ok \in BOOLEAN
  /\ ScrcpyCommit(
       IF ok
         THEN leaveTry(emitScrcpyEvent(
                         [By(c) EXCEPT !.disk.markers = {scrcpyCalls[c].release},
                                       !.disk.adb = TRUE,
                                       !.installedScrcpyInfo = scrcpyCalls[c].release,
                                       !.out.ops = {"install"}],
                         IF ContextOf(c) = DOWNLOAD_CONTEXT_UPDATE
                           THEN "update-complete" ELSE "initial-download-complete"),
                       c, ContextOf(c), "")
         ELSE leaveTry(By(c), c, ContextOf(c), "corrupt"))

\* the removal of the archive in the finally block ended: the call returns or
\* rethrows to its caller
CleanupDone(c) ==
  /\ scrcpyCalls[c].pc = "cleanup"
  /\ ScrcpyCommit(IF scrcpyCalls[c].err = ""
                    THEN endCall(By(c), c, TRUE, "")
                    ELSE callerCatches(By(c), c, scrcpyCalls[c].err, TRUE))

ScrcpyInit ==
  /\ MainInit
  /\ prefsLabels = [p \in Pkgs |-> ""] /\ aapt2Available
  /\ resolveCall = NoCall /\ resolverOutput = <<>>
  /\ fnCall = NoFnCall /\ fnOutput = <<>>
  /\ MatIdle /\ TrackerIdle
  /\ ongoingScrcpyDownload = Null /\ installedScrcpyInfo = 0 /\ latestReleaseCache = 0
  /\ scrcpyCalls = [c \in Callers |-> ScrcpyCall(IF c = "lifecycle" THEN "start" ELSE "idle")]
  /\ scrcpyDisk \in [adb : BOOLEAN, archive : BOOLEAN, markers : SUBSET Versions]
  /\ scrcpyRemote \in Versions
  /\ scrcpyOut = NoScrcpyOut

ScrcpyNext ==
  \/ LifecycleStart
  \/ \E c \in Callers :
       \/ StartUpdate(c)
       \/ InstalledRead(c)
       \/ \E ok \in BOOLEAN : ReleaseFetched(c, ok)
       \/ MarkersListed(c)
       \/ ArchiveRemoved(c)
       \/ MarkerRemoved(c)
       \/ \E ok \in BOOLEAN, partial \in BOOLEAN : DownloadDone(c, ok, partial)
       \/ \E ok \in BOOLEAN : ExtractDone(c, ok)
       \/ \E ok \in BOOLEAN : InstallDone(c, ok)
       \/ CleanupDone(c)
ScrcpySpec == ScrcpyInit /\ [][ScrcpyNext]_vars

(* ------------------------------------------------------------------ C39 *)
\* the callers whose download / installation is in progress
Installing == {c \in Callers : scrcpyCalls[c].pc \in InstallPcs}
\* the step was the end of a call that was rejected as busy
RejectedBusy == scrcpyOut.result = [started |-> FALSE, reason |-> "busy"]

\* C39: at most one call is between the setting of the marker and its finally
\* block, and the marker is set exactly while one is, whatever stage failed; a
\* step of another caller taken while the marker is set ends a request as busy
\* or waits, and deletes or writes no file; a request made while the marker is
\* clear is not rejected as busy.
C39_SingleFlight ==
  /\ [](/\ Cardinality(Installing) <= 1
        /\ \A c \in Installing : ongoingScrcpyDownload = ContextOf(c)
        /\ Installing = {} => ongoingScrcpyDownload = Null)
  /\ [][\A c \in Callers :
          /\ (ongoingScrcpyDownload # Null /\ scrcpyOut'.by = c /\ c \notin Installing
              /\ scrcpyCalls[c].pc # "cleanup") =>
               /\ scrcpyOut'.ops = {} /\ scrcpyDisk' = scrcpyDisk
               /\ ongoingScrcpyDownload' = ongoingScrcpyDownload
               /\ c \notin Installing'
               /\ scrcpyCalls[c].pc = "idle" => RejectedBusy'
          /\ (ongoingScrcpyDownload = Null /\ scrcpyOut'.by = c) => ~RejectedBusy']_vars

\* C39 witness: the lifecycle has ended without an installation; an update
\* requested later is being extracted, and another request has just been
\* rejected as busy.
C39_Witness ==
  /\ RejectedBusy
  /\ \E c \in Installing : c # "lifecycle" /\ scrcpyCalls[c].pc = "extracting"
  /\ scrcpyCalls["lifecycle"].pc = "done" /\ scrcpyDisk.markers = {} /\ ~scrcpyDisk.adb

(* --------------------------------------------- the window tracker (part_000) *)
WINDOWS_PLATFORM == "win32"
\* ABSENCE_TOLERANCE_MS and the length of the run, in ticks of the clock
ToleranceTicks == 2
MaxClock == 4
\* the window titles, as normalizeTitle leaves them; "" is a session without title
WindowTitles == {"Pixel"}
SessionTitles == WindowTitles \cup {""}

TrackerCur ==
  [listeners |-> listeners, pollTimer |-> pollTimer, polling |-> polling,
   execsInFlight |-> execsInFlight, lastCallback |-> lastCallback,
   registration |-> registration, delivered |-> {}]

TrackerCommit(t) ==
  /\ listeners' = t.listeners
  /\ pollTimer' = t.pollTimer
  /\ polling' = t.polling
  /\ execsInFlight' = t.execsInFlight
  /\ lastCallback' = t.lastCallback
  /\ registration' = t.registration
  /\ delivered' = t.delivered
  /\ UNCHANGED <<mainVars, resolverVars, fnVars, matVars, scrcpyVars,
                 trackerPlatform, trackerNow>>

\* entry.callback(visible)
callback(t, id, visible) ==
  [t EXCEPT !.delivered = @ \cup {[id |-> id, visible |-> visible]},
            !.lastCallback[id] = IF visible THEN "true" ELSE "false"]

\* pollWindows, lines 35-45: up to the start of the powershell process
pollWindows(t) ==
  IF trackerPlatform # WINDOWS_PLATFORM \/ DOMAIN t.listeners = {} \/ t.polling THEN t
  ELSE [t EXCEPT !.polling = TRUE, !.execsInFlight = @ + 1]

ensurePolling(t) ==
  IF trackerPlatform # WINDOWS_PLATFORM \/ t.pollTimer \/ DOMAIN t.listeners = {} THEN t
  ELSE [t EXCEPT !.pollTimer = TRUE]

maybeStopPolling(t) ==
  IF ~t.pollTimer \/ DOMAIN t.listeners # {} THEN t
  ELSE [t EXCEPT !.pollTimer = FALSE]

\* listeners.set(id, entry)
setListener(t, id, entry) ==
  [t EXCEPT !.listeners = [i \in DOMAIN t.listeners \cup {id} |->
                             IF i = id THEN entry ELSE t.listeners[i]],
            !.registration[id] = "registered"]

register(t, id, title) ==
  IF trackerPlatform # WINDOWS_PLATFORM
    THEN callback(setListener(t, id, [title |-> title, visible |-> TRUE,
                                       lastSeenAt |-> trackerNow]),
                  id, TRUE)
    ELSE pollWindows(ensurePolling(
           setListener(t, id, [title |-> title, visible |-> FALSE, lastSeenAt |-> 0])))

unregister(t, id) ==
  LET t1 == [t EXCEPT !.listeners = [i \in DOMAIN t.listeners \ {id} |-> t.listeners[i]],
                      !.registration[id] = "unregistered"]
  IN IF trackerPlatform # WINDOWS_PLATFORM THEN t1 ELSE maybeStopPolling(t1)

\* the body of the loop of lines 51-80 calling back whenever the title is seen
visit_CallsBackEveryPoll(t, id, visibleTitles, now) ==
  LET entry == t.listeners[id]
  IN IF entry.title = ""
       THEN IF ~entry.visible
              THEN callback([t EXCEPT !.listeners[id].visible = TRUE,
                                      !.listeners[id].lastSeenAt = now], id, TRUE)
              ELSE t
       ELSE IF entry.title \in visibleTitles
         THEN callback([t EXCEPT !.listeners[id].lastSeenAt = now,
                                 !.listeners[id].visible = TRUE], id, TRUE)
         ELSE IF entry.lastSeenAt = 0 THEN t
         ELSE IF entry.visible /\ now - entry.lastSeenAt >= ToleranceTicks
           THEN callback([t EXCEPT !.listeners[id].visible = FALSE], id, FALSE)
           ELSE t

\* the body of the loop of lines 51-80 for one entry
visit(t, id, visibleTitles, now) ==
  LET entry == t.listeners[id]
  IN IF entry.title = ""
       THEN IF ~entry.visible
              THEN callback([t EXCEPT !.listeners[id].visible = TRUE,
                                      !.listeners[id].lastSeenAt = now], id, TRUE)
              ELSE t
       ELSE IF entry.title \in visibleTitles
         THEN LET t1 == [t EXCEPT !.listeners[id].lastSeenAt = now]
              IN IF ~entry.visible
                   THEN callback([t1 EXCEPT !.listeners[id].visible = TRUE], id, TRUE)
                   ELSE t1
         ELSE IF entry.lastSeenAt = 0 THEN t
         ELSE IF entry.visible /\ now - entry.lastSeenAt >= ToleranceTicks
           THEN callback([t EXCEPT !.listeners[id].visible = FALSE], id, FALSE)
           ELSE t

RECURSIVE visitAll(_, _, _, _)
\* the loop over listeners.entries(); the entries do not depend on each other
visitAll(t, ids, visibleTitles, now) ==
  IF ids = {} THEN t
  ELSE LET id == Min(ids)
       IN visitAll(visit(t, id, visibleTitles, now), ids \ {id}, visibleTitles, now)

\* the callback of exec, lines 45-81: error, or the titles printed
execCallback(t, error, titles) ==
  visitAll([t EXCEPT !.polling = FALSE, !.execsInFlight = @ - 1],
           DOMAIN t.listeners, IF error THEN {} ELSE titles, trackerNow)

\* a video session is launched: its id is new (preload.js:1287, 1314)
Register(id, title) ==
  /\ registration[id] = "never"
  /\ \A i \in Ids : i < id => registration[i] # "never"
  /\ TrackerCommit(register(TrackerCur, id, title))

\* the session has ended (preload.js:1326)
Unregister(id) ==
  /\ registration[id] = "registered"
  /\ TrackerCommit(unregister(TrackerCur, id))

\* the interval timer fires
TimerFires ==
  /\ pollTimer
  /\ TrackerCommit(pollWindows(TrackerCur))

\* the powershell process has ended
PollDone(error, titles) ==
  /\ execsInFlight > 0
  /\ error \in BOOLEAN /\ titles \in SUBSET WindowTitles
  /\ TrackerCommit(execCallback(TrackerCur, error, titles))

\* time passes
Tick ==
  /\ trackerNow < MaxClock
  /\ trackerNow' = trackerNow + 1
  /\ delivered' = {}
  /\ UNCHANGED <<mainVars, resolverVars, fnVars, matVars, scrcpyVars,
                 trackerPlatform, listeners, pollTimer, polling, execsInFlight,
                 lastCallback, registration>>

TrackerInit ==
  /\ MainInit
  /\ prefsLabels = [p \in Pkgs |-> ""] /\ aapt2Available
  /\ resolveCall = NoCall /\ resolverOutput = <<>>
  /\ fnCall = NoFnCall /\ fnOutput = <<>>
  /\ MatIdle /\ ScrcpyIdle
  /\ trackerPlatform \in {WINDOWS_PLATFORM, "linux"}
  /\ listeners = <<>> /\ pollTimer = FALSE /\ polling = FALSE
  /\ execsInFlight = 0 /\ trackerNow = 1
  /\ lastCallback = [i \in Ids |-> "none"] /\ registration = [i \in Ids |-> "never"]
  /\ delivered = {}

TrackerNext ==
  \/ \E id \in Ids, title \in SessionTitles : Register(id, title)
  \/ \E id \in Ids : Unregister(id)
  \/ TimerFires
  \/ \E error \in BOOLEAN, titles \in SUBSET WindowTitles : PollDone(error, titles)
  \/ Tick
TrackerSpec == TrackerInit /\ [][TrackerNext]_vars

(* ------------------------------------------------------------------ C40 *)
\* C40: the callbacks of an id alternate and begin with true: a callback with
\* true follows no callback or one with false, a callback with false follows
\* one with true, and a step calls back an id at most once; at most one
\* powershell call is in flight; only an id that is registered is called back.
C40_AlternatingCallbacks ==
  /\ [](execsInFlight <= 1 /\ (polling <=> execsInFlight = 1))
  /\ [][\A cb \in delivered' :
          /\ registration[cb.id] # "unregistered"
          /\ registration'[cb.id] = "registered"
          /\ cb.visible <=> lastCallback[cb.id] # "true"
          /\ \A other \in delivered' : other.id = cb.id => other = cb]_vars

\* C40 witness: a poll has just reported a session gone that an earlier poll
\* had reported visible, after another session was unregistered; the timer
\* goes on.
C40_Witness ==
  /\ \E cb \in delivered :
       /\ ~cb.visible /\ lastCallback[cb.id] = "false"
       /\ \E other \in Ids \ {cb.id} : registration[other] = "unregistered"
  /\ pollTimer /\ ~polling

====
